---- MODULE Spec2Model ----
(***************************************************************************)
(* A model of the gwendr sphere tracer and shader (src/src/sdf.rs,         *)
(* src/src/scene.rs, src/src/linear.rs, src/src/mat.rs).                   *)
(*                                                                         *)
(* Numbers.  Every f64 of the program is a fixed-point integer: the value  *)
(* v is held as round(v * One), with One = 10000, the resolution at which  *)
(* the epsilon of a unit Sphere (radius / 10000) and of a Vec3 used as an  *)
(* SDF (0.0001) is exactly one unit.  Products and quotients round to the  *)
(* nearest unit, sqrt rounds to the nearest unit.  One value outside the   *)
(* range of the numbers stands for the f64 NaN: every operation on a NaN   *)
(* gives NaN, every comparison with a NaN is false, f64::min and f64::max  *)
(* return their other argument.  The infinities are not held: a quotient   *)
(* of a non-zero number by zero is outside the model.                      *)
(***************************************************************************)
EXTENDS Integers, Naturals, Sequences, FiniteSets, TLC

VARIABLES
    mq,        \* SDF::raymarch in progress: its arguments, locals and result
    scene,     \* Scene { sdf, lights, view, far_plane }
    image,     \* (width, height) handed to raycast_pixel
    pixel,     \* the pixel handed to raycast_pixel
    stack,     \* activation records of raycast / get_color, innermost last
    ret,       \* Option<Color> returned by the raycast that just returned
    rng,       \* the values Math.random() is going to return, in order
    draws,     \* the values Math.random() returned during the current call
    calls,     \* the raycast_pixel calls so far: arguments, scene, draws, result
    last,      \* history: the raycast call that returned last
    parser,    \* Scene::parse in progress: the lines left, its locals, its place
    probe,     \* an SDF, a point, and what the SDF's methods returned for them
    hex,       \* a Color being made and written as a hex string
    viewport   \* Viewport { index, frame }, its canvas, and what it has rendered

vars == <<mq, scene, image, pixel, stack, ret, rng, draws, calls, last, parser, probe,
          hex, viewport>>

shadeVars == <<scene, image, pixel, stack, ret, rng, draws, calls, last, parser, probe,
               hex, viewport>>

-----------------------------------------------------------------------------
(* Fixed-point arithmetic                                                  *)

SphereEpsDiv == 10000

One == SphereEpsDiv

Half == One \div 2

\* f64::NAN
NaN == -2147483647

Abs(a) == IF a = NaN THEN NaN ELSE IF a < 0 THEN -a ELSE a

\* f64::min, f64::max: a NaN argument is ignored
Min(a, b) ==
    IF a = NaN THEN b ELSE IF b = NaN THEN a ELSE IF a < b THEN a ELSE b

Max(a, b) ==
    IF a = NaN THEN b ELSE IF b = NaN THEN a ELSE IF a > b THEN a ELSE b

\* the operators +, -, unary -, >, < and >= of f64
Plus(a, b) == IF a = NaN \/ b = NaN THEN NaN ELSE a + b

Minus(a, b) == IF a = NaN \/ b = NaN THEN NaN ELSE a - b

Neg(a) == IF a = NaN THEN NaN ELSE -a

Gt(a, b) == a # NaN /\ b # NaN /\ a > b

Lt(a, b) == a # NaN /\ b # NaN /\ a < b

Ge(a, b) == a # NaN /\ b # NaN /\ a >= b

\* a / b rounded to the nearest integer; 0 / 0 is NaN
RoundDiv(a, b) ==
    IF a = NaN \/ b = NaN \/ (a = 0 /\ b = 0) THEN NaN
    ELSE IF b > 0 THEN (2 * a + b) \div (2 * b)
    ELSE (2 * (-a) + (-b)) \div (2 * (-b))

\* product of two fixed-point numbers
Mul(a, b) == IF a = NaN \/ b = NaN THEN NaN ELSE RoundDiv(a * b, One)

\* product of a fixed-point number by a whole number
Times(a, n) == IF a = NaN THEN NaN ELSE a * n

RECURSIVE SqrtSearch(_, _, _)
SqrtSearch(n, lo, hi) ==
    IF hi - lo <= 1 THEN lo
    ELSE LET mid == (lo + hi) \div 2
         IN  IF mid * mid <= n THEN SqrtSearch(n, mid, hi)
             ELSE SqrtSearch(n, lo, mid)

\* sqrt of a raw square, rounded to the nearest integer
Sqrt(n) ==
    IF n = NaN THEN NaN
    ELSE LET r == SqrtSearch(n, 0, 46341)
         IN  IF n - r * r > r THEN r + 1 ELSE r

-----------------------------------------------------------------------------
(* linear.rs: Vec3, Ray                                                    *)

Vec3(x, y, z) == <<x, y, z>>

zero == Vec3(0, 0, 0)
up == Vec3(0, One, 0)
down == Vec3(0, -One, 0)
left == Vec3(-One, 0, 0)
right == Vec3(One, 0, 0)
forward == Vec3(0, 0, One)
backward == Vec3(0, 0, -One)

\* Vec3::is_nan: some component is NaN
is_nan(v) == v[1] = NaN \/ v[2] = NaN \/ v[3] = NaN

\* Vec3::add(self, scale, other) = self + scale * other
VAdd(v, s, o) ==
    <<Plus(v[1], Mul(s, o[1])), Plus(v[2], Mul(s, o[2])), Plus(v[3], Mul(s, o[3]))>>

VScale(v, s) == <<Mul(v[1], s), Mul(v[2], s), Mul(v[3], s)>>

VSub(a, b) == <<Minus(a[1], b[1]), Minus(a[2], b[2]), Minus(a[3], b[3])>>

VPlus(a, b) == <<Plus(a[1], b[1]), Plus(a[2], b[2]), Plus(a[3], b[3])>>

Dot(a, b) ==
    IF is_nan(a) \/ is_nan(b) THEN NaN
    ELSE RoundDiv(a[1] * b[1] + a[2] * b[2] + a[3] * b[3], One)

\* x * y - z * w, of fixed-point numbers
CrossTerm(x, y, z, w) ==
    IF NaN \in {x, y, z, w} THEN NaN ELSE RoundDiv(x * y - z * w, One)

Cross(a, b) ==
    <<CrossTerm(a[2], b[3], a[3], b[2]),
      CrossTerm(a[3], b[1], a[1], b[3]),
      CrossTerm(a[1], b[2], a[2], b[1])>>

\* norm2 and dist2 are kept as raw squares (value * One * One): the program
\* only compares them with 0 and with far_plane * far_plane, or takes their sqrt
Norm2(v) == IF is_nan(v) THEN NaN ELSE v[1] * v[1] + v[2] * v[2] + v[3] * v[3]

Norm(v) == Sqrt(Norm2(v))

Normalize(v) ==
    LET mag2 == Norm2(v)
    IN  IF mag2 = 0 THEN v
        ELSE LET mag == Sqrt(mag2)
             IN  <<RoundDiv(Times(v[1], One), mag), RoundDiv(Times(v[2], One), mag),
                   RoundDiv(Times(v[3], One), mag)>>

Dist2(a, b) == Norm2(VSub(b, a))

Dist(a, b) == Sqrt(Dist2(a, b))

Ray(origin, direction) == [origin |-> origin, direction |-> direction]

\* Rodrigues' formula with the sine and the cosine of the angle given; the axis
\* is a unit vector: v cos + (axis x v) sin + axis (axis . v) (1 - cos)
RotateSC(v, sin, cos, axis) ==
    VAdd(VAdd(VScale(v, cos), sin, Cross(axis, v)),
         Mul(Dot(axis, v), One - cos), axis)

-----------------------------------------------------------------------------
(* mat.rs: Color, Material                                                 *)

Color(r, g, b) == <<r, g, b>>

black == Color(0, 0, 0)

white == Color(One, One, One)

\* Color::add(self, scale, other) = self + scale * other
CAdd(c, s, o) ==
    <<Plus(c[1], Mul(s, o[1])), Plus(c[2], Mul(s, o[2])), Plus(c[3], Mul(s, o[3]))>>

CScale(c, s) == <<Mul(c[1], s), Mul(c[2], s), Mul(c[3], s)>>

\* Color::multiply, the `&a * &b` of two colours
CMultiply(c, o) == <<Mul(c[1], o[1]), Mul(c[2], o[2]), Mul(c[3], o[3])>>

\* Color::lerp(self, t, other) = self * (1 - t) + other * t
CLerp(c, t, o) == CAdd(CScale(c, One - t), t, o)

\* Color::is_black: every channel == 0
IsBlack(c) == c[1] = 0 /\ c[2] = 0 /\ c[3] = 0

\* RefractionConstants::VACUUM
VACUUM == One

\* Material::new(); opacity and index_of_refraction are the two fields that
\* scene.rs reads and mat.rs does not show: opaque, vacuum
MaterialNew ==
    [ambient |-> black, diffuse |-> white, specular |-> black,
     phong |-> 1, reflectivity |-> 0,
     opacity |-> One, index_of_refraction |-> VACUUM]

-----------------------------------------------------------------------------
(* sdf.rs: the SDF trait objects, as trees                                 *)

Sphere(radius) == [kind |-> "Sphere", radius |-> radius]

Plane(normal) == [kind |-> "Plane", normal |-> normal]

\* impl SDF for Vec3: the distance to a point
PointSDF(at) == [kind |-> "Vec3", at |-> at]

\* FuncSdf { func, epsilon }: func is one of the closures of FuncApply
FuncSdf(func, epsilon) == [kind |-> "FuncSdf", func |-> func, epsilon |-> epsilon]

UnionSDF(a, b) == [kind |-> "Union", a |-> a, b |-> b]

IntersectionSDF(a, b) == [kind |-> "Intersection", a |-> a, b |-> b]

DifferenceSDF(a, b) == [kind |-> "Difference", a |-> a, b |-> b]

NegationSDF(sdf) == [kind |-> "Negation", sdf |-> sdf]

NegatedRefSDF(sdf) == [kind |-> "NegatedRef", sdf |-> sdf]

TranslatedSDF(sdf, translation) ==
    [kind |-> "Translated", sdf |-> sdf, translation |-> translation]

ScaledSDF(sdf, scale) == [kind |-> "Scaled", sdf |-> sdf, scale |-> scale]

MatSDF(sdf, mat) == [kind |-> "Mat", sdf |-> sdf, mat |-> mat]

EmptySDF == [kind |-> "Empty"]

\* MAX_FLOAT is 2^53, a distance beyond every far plane; in the model it is
\* the distance 2, which is beyond every far plane of the model and whose
\* square the numbers of the model still hold
MAX_FLOAT == 20000

RECURSIVE VSum(_)
VSum(vertices) ==
    IF vertices = <<>> THEN zero ELSE VPlus(VSum(SubSeq(vertices, 1, Len(vertices) - 1)),
                                            vertices[Len(vertices)])

\* the vertex after vertex i, around the polygon
NextVertex(vertices, i) == vertices[(i % Len(vertices)) + 1]

\* PolyFace::new, lines 227-234: a thousandth of the shortest edge, 1 at most
RECURSIVE PolyEpsilon(_, _)
PolyEpsilon(vertices, n) ==
    IF n = 0 THEN One
    ELSE Min(PolyEpsilon(vertices, n - 1),
             RoundDiv(Dist(vertices[n], NextVertex(vertices, n)), 1000))

\* PolyFace::new
PolyFace(vertices) ==
    LET centroid == VScale(VSum(vertices), RoundDiv(One * One, Len(vertices) * One))
        a == VSub(vertices[1], centroid)
        b == VSub(vertices[2], centroid)
    IN  [kind |-> "PolyFace", vertices |-> vertices,
         centroid |-> IF Len(vertices) >= 3 THEN centroid ELSE zero,
         normal |-> IF Len(vertices) >= 3 THEN Normalize(Cross(b, a)) ELSE zero,
         epsilon |-> PolyEpsilon(vertices, Len(vertices))]

PolyThickness == 1000

\* PolyFace::distance, lines 295-300: the edges up to edge n; rotate by PI / 2
\* enters by its sine 1 and its cosine 0
RECURSIVE PolyEdges(_, _, _, _)
PolyEdges(s, p, sd, n) ==
    IF n = 0 THEN sd
    ELSE LET a == s.vertices[n]
             b == NextVertex(s.vertices, n)
             edge_normal == Normalize(RotateSC(VSub(b, a), One, 0, s.normal))
         IN  Max(PolyEdges(s, p, sd, n - 1),
                 Minus(Dot(VSub(p, a), edge_normal), s.epsilon))

\* PolyFace::distance
PolyDistance(s, p) ==
    IF Len(s.vertices) < 3 THEN MAX_FLOAT
    ELSE LET front == Dot(s.normal, VSub(p, s.centroid))
             back == Minus(Neg(Dot(s.normal, VSub(p, s.centroid))), PolyThickness)
         IN  PolyEdges(s, p, Max(front, back), Len(s.vertices))

\* The closures handed to FuncSdf::new: |v| v.norm() - r (the sphere of the
\* tests), |_| c (nothing nearer than c anywhere) and |p| 2 * |p.z| (the plane
\* z = 0 with its distance over-estimated twofold, so not 1-Lipschitz)
FuncApply(func, p) ==
    CASE func.name = "sphere" -> Minus(Norm(p), func.r)
      [] func.name = "constant" -> func.c
      [] func.name = "twice_abs_z" -> Times(Abs(p[3]), 2)

NegationLosesSign(d) == Neg(Abs(d))

\* NegationSDF::distance and NegatedRefSDF::distance, of the distance d of the
\* wrapped SDF
negation_distance(d) == Neg(d)

DifferenceKeepsSign(da, db) == Max(da, db)

\* DifferenceSDF::distance, of the distances of a and b
difference_distance(da, db) == Max(da, Neg(db))

NearerTiesToA(da, db) == ~Gt(da, db)

\* the test of UnionSDF::material and IntersectionSDF::material
nearer_is_a(da, db) == Lt(da, db)

RECURSIVE Distance(_, _)
Distance(s, p) ==
    CASE s.kind = "Sphere" -> Minus(Norm(p), s.radius)
      [] s.kind = "Plane" -> Dot(s.normal, p)
      [] s.kind = "Vec3" -> Dist(s.at, p)
      [] s.kind = "FuncSdf" -> FuncApply(s.func, p)
      [] s.kind = "Union" -> Min(Distance(s.a, p), Distance(s.b, p))
      [] s.kind = "Intersection" -> Max(Distance(s.a, p), Distance(s.b, p))
      [] s.kind = "Difference" -> difference_distance(Distance(s.a, p), Distance(s.b, p))
      [] s.kind = "Negation" -> negation_distance(Distance(s.sdf, p))
      [] s.kind = "NegatedRef" -> negation_distance(Distance(s.sdf, p))
      [] s.kind = "Translated" -> Distance(s.sdf, VSub(p, s.translation))
      [] s.kind = "Scaled" ->
            Mul(Distance(s.sdf, VScale(p, RoundDiv(One * One, s.scale))), s.scale)
      [] s.kind = "Mat" -> Distance(s.sdf, p)
      [] s.kind = "Empty" -> MAX_FLOAT
      [] s.kind = "PolyFace" -> PolyDistance(s, p)

RECURSIVE Epsilon(_)
Epsilon(s) ==
    CASE s.kind = "Sphere" -> RoundDiv(s.radius, SphereEpsDiv)
      [] s.kind = "Plane" -> RoundDiv(One, 1000)
      [] s.kind = "Vec3" -> RoundDiv(One, 10000)
      [] s.kind \in {"FuncSdf", "PolyFace"} -> s.epsilon
      [] s.kind = "Empty" -> One
      [] s.kind \in {"Union", "Intersection", "Difference"} ->
            Min(Epsilon(s.a), Epsilon(s.b))
      [] OTHER -> Epsilon(s.sdf)

Some(v) == [is_some |-> TRUE, val |-> v]

None == [is_some |-> FALSE]

\* SDF::material: Option<Material>; the trait's default is None
RECURSIVE MaterialAt(_, _)
MaterialAt(s, p) ==
    CASE s.kind = "Mat" -> Some(s.mat)
      [] s.kind \in {"Union", "Intersection"} ->
            IF nearer_is_a(Distance(s.a, p), Distance(s.b, p)) THEN MaterialAt(s.a, p)
            ELSE MaterialAt(s.b, p)
      [] s.kind = "Difference" -> MaterialAt(s.a, p)
      [] s.kind \in {"Translated", "Scaled"} -> MaterialAt(s.sdf, p)
      [] OTHER -> None

\* the trait's default normal: central differences of distance at scale epsilon
GradientNormal(s, p) ==
    LET e == Epsilon(s)
    IN  Normalize(Vec3(
            Minus(Distance(s, VAdd(VScale(right, e), One, p)),
                  Distance(s, VAdd(VScale(left, e), One, p))),
            Minus(Distance(s, VAdd(VScale(up, e), One, p)),
                  Distance(s, VAdd(VScale(down, e), One, p))),
            Minus(Distance(s, VAdd(VScale(forward, e), One, p)),
                  Distance(s, VAdd(VScale(backward, e), One, p)))))

RECURSIVE Normal(_, _)
Normal(s, p) ==
    IF s.kind \in {"Negation", "NegatedRef"}
    THEN VScale(Normal(s.sdf, p), -One)
    ELSE IF s.kind = "PolyFace" THEN s.normal
    ELSE GradientNormal(s, p)


-----------------------------------------------------------------------------
(* sdf.rs: SDF::raymarch                                                   *)

\* bound on the loop iterations the model counts (the counter saturates)
MaxSteps == 40

RayHit(ray, point, distance, normal, material) ==
    [ray |-> ray, point |-> point, distance |-> distance,
     normal |-> normal, material |-> material]

UnwrapOr(opt, default) == IF opt.is_some THEN opt.val ELSE default

\* the locals of raymarch when the loop is first reached (lines 74-77)
RaymarchEnter(sdf, ray, far_plane) ==
    [pc |-> "loop", sdf |-> sdf, ray |-> ray, far_plane |-> far_plane,
     point |-> ray.origin,
     direction |-> Normalize(ray.direction),
     distance |-> Distance(sdf, ray.origin),
     epsilon |-> Epsilon(sdf),
     steps |-> 0, grew |-> FALSE, hit |-> None]

\* mutant: the distance is taken before the point is moved
RaymarchStepStale(m) ==
    IF Gt(m.distance, m.epsilon)
    THEN LET distance == Distance(m.sdf, m.point)
             point == VAdd(m.point, m.distance, m.direction)
         IN  [m EXCEPT !.point = point, !.distance = distance,
                       !.steps = Min(m.steps + 1, MaxSteps),
                       !.grew = m.grew \/ Gt(distance, m.distance),
                       !.pc = IF Ge(Dist2(point, m.ray.origin), m.far_plane * m.far_plane)
                              THEN "miss" ELSE "loop"]
    ELSE [m EXCEPT !.pc = "hit",
                   !.hit = Some(RayHit(m.ray, m.point, m.distance,
                                       Normal(m.sdf, m.point),
                                       UnwrapOr(MaterialAt(m.sdf, m.point), MaterialNew)))]

\* mutant: each step starts again from the ray's origin
RaymarchStepFromOrigin(m) ==
    IF Gt(m.distance, m.epsilon)
    THEN LET point == VAdd(m.ray.origin, m.distance, m.direction)
             distance == Distance(m.sdf, point)
         IN  [m EXCEPT !.point = point, !.distance = distance,
                       !.steps = Min(m.steps + 1, MaxSteps),
                       !.grew = m.grew \/ Gt(distance, m.distance),
                       !.pc = IF Ge(Dist2(point, m.ray.origin), m.far_plane * m.far_plane)
                              THEN "miss" ELSE "loop"]
    ELSE [m EXCEPT !.pc = "hit",
                   !.hit = Some(RayHit(m.ray, m.point, m.distance,
                                       Normal(m.sdf, m.point),
                                       UnwrapOr(MaterialAt(m.sdf, m.point), MaterialNew)))]

\* mutant: the divergence test, a miss as soon as the distance grows
RaymarchStepDiverge(m) ==
    IF Gt(m.distance, m.epsilon)
    THEN LET point == VAdd(m.point, m.distance, m.direction)
             distance == Distance(m.sdf, point)
         IN  [m EXCEPT !.point = point, !.distance = distance,
                       !.steps = Min(m.steps + 1, MaxSteps),
                       !.grew = m.grew \/ Gt(distance, m.distance),
                       !.pc = IF \/ Gt(distance, m.distance)
                                 \/ Ge(Dist2(point, m.ray.origin), m.far_plane * m.far_plane)
                              THEN "miss" ELSE "loop"]
    ELSE [m EXCEPT !.pc = "hit",
                   !.hit = Some(RayHit(m.ray, m.point, m.distance,
                                       Normal(m.sdf, m.point),
                                       UnwrapOr(MaterialAt(m.sdf, m.point), MaterialNew)))]

\* mutant: the far-plane test looks at the point before it is moved
RaymarchStepTestsBefore(m) ==
    IF Gt(m.distance, m.epsilon)
    THEN LET point == VAdd(m.point, m.distance, m.direction)
             distance == Distance(m.sdf, point)
         IN  [m EXCEPT !.point = point, !.distance = distance,
                       !.steps = Min(m.steps + 1, MaxSteps),
                       !.grew = m.grew \/ Gt(distance, m.distance),
                       !.pc = IF Ge(Dist2(m.point, m.ray.origin), m.far_plane * m.far_plane)
                              THEN "miss" ELSE "loop"]
    ELSE [m EXCEPT !.pc = "hit",
                   !.hit = Some(RayHit(m.ray, m.point, m.distance,
                                       Normal(m.sdf, m.point),
                                       UnwrapOr(MaterialAt(m.sdf, m.point), MaterialNew)))]

\* mutant: the far-plane test is also made on the point of a hit
RaymarchStepTestsHit(m) ==
    IF Gt(m.distance, m.epsilon)
    THEN LET point == VAdd(m.point, m.distance, m.direction)
             distance == Distance(m.sdf, point)
         IN  [m EXCEPT !.point = point, !.distance = distance,
                       !.steps = Min(m.steps + 1, MaxSteps),
                       !.grew = m.grew \/ Gt(distance, m.distance),
                       !.pc = IF Ge(Dist2(point, m.ray.origin), m.far_plane * m.far_plane)
                              THEN "miss" ELSE "loop"]
    ELSE IF Ge(Dist2(m.point, m.ray.origin), m.far_plane * m.far_plane)
    THEN [m EXCEPT !.pc = "miss"]
    ELSE [m EXCEPT !.pc = "hit",
                   !.hit = Some(RayHit(m.ray, m.point, m.distance,
                                       Normal(m.sdf, m.point),
                                       UnwrapOr(MaterialAt(m.sdf, m.point), MaterialNew)))]

\* one evaluation of the loop condition and, if it holds, one iteration of the
\* body (lines 78-84); otherwise the construction of the hit (lines 85-94).
\* steps and grew are history: iterations run, and whether the distance ever
\* grew from one point to the next
RaymarchStep(m) ==
    IF Gt(m.distance, m.epsilon)
    THEN LET point == VAdd(m.point, m.distance, m.direction)
             distance == Distance(m.sdf, point)
         IN  [m EXCEPT !.point = point, !.distance = distance,
                       !.steps = Min(m.steps + 1, MaxSteps),
                       !.grew = m.grew \/ Gt(distance, m.distance),
                       !.pc = IF Ge(Dist2(point, m.ray.origin), m.far_plane * m.far_plane)
                              THEN "miss" ELSE "loop"]
    ELSE [m EXCEPT !.pc = "hit",
                   !.hit = Some(RayHit(m.ray, m.point, m.distance,
                                       Normal(m.sdf, m.point),
                                       UnwrapOr(MaterialAt(m.sdf, m.point), MaterialNew)))]

RECURSIVE RaymarchRun(_, _)
RaymarchRun(m, fuel) ==
    IF m.pc # "loop" \/ fuel = 0 THEN m
    ELSE RaymarchRun(RaymarchStep(m), fuel - 1)

\* the whole call, for the callers in scene.rs: pc = "hit" with hit = Some(..),
\* pc = "miss" (None), or pc = "loop" when the call has not returned after
\* MaxSteps iterations
raymarch(sdf, ray, far_plane) ==
    RaymarchRun(RaymarchEnter(sdf, ray, far_plane), MaxSteps + 1)

-----------------------------------------------------------------------------
(* The tracer alone: one raymarch call, one loop iteration per step        *)

Slab(z0, z1) ==
    IntersectionSDF(TranslatedSDF(Plane(forward), Vec3(0, 0, z1)),
                    TranslatedSDF(Plane(backward), Vec3(0, 0, z0)))

Ball(r, epsilon) == FuncSdf([name |-> "sphere", r |-> r], epsilon)

MarchSdfs ==
    { Ball(2000, 1),
      Sphere(One),
      NegationSDF(Ball(4000, 2)),
      UnionSDF(TranslatedSDF(Ball(2000, 1), Vec3(2300, 0, 0)),
               MatSDF(Slab(1500, 1600), MaterialNew)),
      PointSDF(Vec3(0, 0, 1200)),
      FuncSdf([name |-> "constant", c |-> 300], 5),
      FuncSdf([name |-> "twice_abs_z"], 2),
      TranslatedSDF(Plane(backward), Vec3(0, 0, 800)),
      EmptySDF,
      PolyFace(<<>>),
      PolyFace(<<Vec3(0, 0, 0), Vec3(One, 0, 0)>>) }

MarchOrigins == { Vec3(0, 0, -2500), Vec3(0, 0, -500), Vec3(30, 0, 0) }

MarchDirections ==
    { Vec3(0, 0, One), Vec3(0, 0, 3), Vec3(0, 0, -2 * One), Vec3(3, 0, 4),
      Vec3(2, -1, One), zero }

MarchFarPlanes == { 0, 1, 700, 6000, MAX_FLOAT - 1 }

MarchInit ==
    /\ \E sdf \in MarchSdfs, o \in MarchOrigins, d \in MarchDirections,
          far_plane \in MarchFarPlanes :
            mq = RaymarchEnter(sdf, Ray(o, d), far_plane)
    /\ scene = None /\ image = <<1, 1>> /\ pixel = <<0, 0>>
    /\ stack = <<>> /\ ret = None /\ rng = <<>> /\ draws = <<>> /\ calls = <<>>
    /\ last = None /\ parser = None /\ probe = None
    /\ hex = None /\ viewport = None

MarchStep ==
    /\ mq.pc = "loop"
    /\ RaymarchStep(mq).pc = "loop"
    /\ mq' = RaymarchStep(mq)
    /\ UNCHANGED shadeVars

MarchMiss ==
    /\ mq.pc = "loop"
    /\ RaymarchStep(mq).pc = "miss"
    /\ mq' = RaymarchStep(mq)
    /\ UNCHANGED shadeVars

MarchHit ==
    /\ mq.pc = "loop"
    /\ RaymarchStep(mq).pc = "hit"
    /\ mq' = RaymarchStep(mq)
    /\ UNCHANGED shadeVars

MarchNext == MarchStep \/ MarchMiss \/ MarchHit

MarchSpec == MarchInit /\ [][MarchNext]_vars


-----------------------------------------------------------------------------
(* Claims about SDF::raymarch, checked under MarchSpec                     *)

\* the inputs 4.2 asks for: a non-zero direction, far_plane > 0, epsilon > 0
MarchInputsOk ==
    /\ Norm2(mq.ray.direction) # 0
    /\ mq.far_plane > 0
    /\ mq.epsilon > 0

Travel(m) == Norm(VSub(m.point, m.ray.origin))

\* C1: for a ray with a non-zero direction, far_plane > 0 and an SDF with a
\* positive epsilon, the marching loop returns after finitely many steps:
\* every iteration that does not return moves the point strictly farther from
\* the origin, by epsilon or more (measured to the nearest unit), and leaves
\* it within the far plane, so no more than far_plane / epsilon iterations
\* can follow each other.
C1_RaymarchTerminates ==
    [][(MarchInputsOk /\ mq.pc = "loop" /\ mq'.pc = "loop") =>
            /\ Dist2(mq'.point, mq.ray.origin) > Dist2(mq.point, mq.ray.origin)
            /\ Travel(mq') >= Travel(mq) + mq.epsilon
            /\ Dist2(mq'.point, mq.ray.origin) < mq.far_plane * mq.far_plane]_vars

\* a march that needed several steps and ended at the far plane
C1_Witness == MarchInputsOk /\ mq.pc = "miss" /\ mq.steps >= 5

\* the point origin + t * direction of the ray, t >= 0, nearest to p
OnRay(m, p) ==
    LET t == Norm(VSub(p, m.ray.origin))
        q == VAdd(m.ray.origin, t, m.direction)
    IN  /\ Dot(VSub(p, m.ray.origin), m.direction) >= 0
        /\ \A c \in 1..3 : Abs(p[c] - q[c]) <= m.steps + 1

\* C2: a returned hit carries the distance of the SDF at the hit point, that
\* distance is at most epsilon, and the hit point lies on the ray (within
\* the rounding of one unit per step taken).
C2_HitIsOnSurfaceAndRay ==
    mq.pc = "hit" =>
        /\ mq.hit.is_some
        /\ mq.hit.val.distance = Distance(mq.sdf, mq.hit.val.point)
        /\ mq.hit.val.distance <= mq.epsilon
        /\ OnRay(mq, mq.hit.val.point)

\* a hit found after marching along an oblique ray
C2_Witness ==
    /\ mq.pc = "hit" /\ mq.steps >= 2
    /\ mq.direction[1] # 0 /\ mq.direction[3] # 0

FarPlaneReached(m) == Dist2(m.point, m.ray.origin) >= m.far_plane * m.far_plane

\* C3: None is returned exactly by the far-plane rule: the march ends in a miss
\* at the first marched point at or beyond the far plane, every marched point
\* before it was within the far plane, and a growing distance alone never ends it.
C3_MissOnlyByFarPlane ==
    /\ mq.pc = "miss" => mq.steps >= 1 /\ FarPlaneReached(mq)
    /\ (mq.pc \in {"loop", "hit"} /\ mq.steps >= 1) => ~FarPlaneReached(mq)
    /\ (mq.pc = "loop" /\ mq.grew) => ~FarPlaneReached(mq)

\* the distance grew on the way and the march still went on to a hit
C3_Witness == mq.pc = "hit" /\ mq.grew /\ mq.steps >= 2

\* an SDF whose distance is MAX_FLOAT everywhere
RendersEmpty(sdf) ==
    sdf.kind = "Empty" \/ (sdf.kind = "PolyFace" /\ Len(sdf.vertices) < 3)

StartsOnSurface(m) ==
    /\ Distance(m.sdf, m.ray.origin) # NaN
    /\ Distance(m.sdf, m.ray.origin) <= m.epsilon

\* C27: when the distance at the ray's origin is at most epsilon the march
\* returns a hit at the origin without an iteration, whatever the far plane;
\* and the point of a hit found after one iteration or more is nearer to the
\* origin than the far plane.
C27_OriginHitsUntested ==
    /\ StartsOnSurface(mq) =>
            /\ mq.steps = 0 /\ mq.pc # "miss"
            /\ mq.pc = "loop" => RaymarchStep(mq).pc = "hit"
            /\ mq.pc = "hit" => mq.hit.is_some /\ mq.hit.val.point = mq.ray.origin
    /\ (mq.pc = "hit" /\ mq.steps >= 1) =>
            Dist2(mq.hit.val.point, mq.ray.origin) < mq.far_plane * mq.far_plane

\* a hit at the origin of a ray whose far plane is 0
C27_Witness ==
    /\ mq.pc = "hit" /\ mq.steps = 0 /\ mq.far_plane = 0
    /\ mq.hit.val.point = mq.ray.origin
    /\ Norm2(mq.ray.direction) # 0

ZeroDirection(m) == m.ray.direction = zero /\ m.direction = zero

\* an iteration of the loop that returns nothing and leaves the two locals
\* the loop reads, point and distance, as they were: every later iteration
\* does the same, and the call never returns
Spins(m) ==
    /\ m.pc = "loop"
    /\ RaymarchStep(m).pc = "loop"
    /\ RaymarchStep(m).point = m.point
    /\ RaymarchStep(m).distance = m.distance

\* C28: the march of a ray whose direction is the zero vector returns, for
\* every far_plane >= 0: no iteration of it leaves the march where it was,
\* and what it returns is a hit when the distance at the origin is at most
\* epsilon, a miss otherwise.
C28_ZeroDirectionReturns ==
    ZeroDirection(mq) =>
        /\ ~Spins(mq)
        /\ mq.pc = "hit" => StartsOnSurface(mq)
        /\ mq.pc = "miss" => ~StartsOnSurface(mq)

-----------------------------------------------------------------------------
(* linear.rs, mat.rs: what the shader uses besides the above               *)

Basis(i, j, k) == <<i, j, k>>

\* Basis::project
BasisProject(basis, local) ==
    VAdd(VAdd(VAdd(zero, local[1], basis[1]), local[2], basis[2]), local[3], basis[3])

Frame(origin, i, j, k) == [origin |-> origin, basis |-> Basis(i, j, k)]

FrameIdentity == Frame(zero, right, up, forward)

project_vec(frame, local) == BasisProject(frame.basis, local)

project_point(frame, local) == VAdd(BasisProject(frame.basis, local), One, frame.origin)

\* Vec3::off_axis(n) = v - (v . n^) n^
OffAxis(v, n) ==
    LET axis == Normalize(n)
    IN  VSub(v, VScale(axis, Dot(v, axis)))

\* sin and cos by their Taylor polynomials (angles well below one radian)
Sin(a) == a - RoundDiv(Mul(Mul(a, a), a), 6)

Cos(a) == One - RoundDiv(Mul(a, a), 2) + RoundDiv(Mul(Mul(a, a), Mul(a, a)), 24)

\* Vec3::rotate(angle, axis)
Rotate(v, angle, axis) == RotateSC(v, Sin(angle), Cos(angle), axis)

\* f64::clamp: NaN stays NaN
Clamp(x, lo, hi) == IF x = NaN THEN NaN ELSE Max(lo, Min(x, hi))

\* f64::signum: 1.0 for +0.0 and above, -1.0 below, NaN for NaN
Signum(x) == IF x = NaN THEN NaN ELSE IF x < 0 THEN -One ELSE One

\* f64::powf for the whole exponents the materials of the model use
RECURSIVE Powf(_, _)
Powf(x, n) == IF n = 0 THEN One ELSE Mul(x, Powf(x, n - 1))

Material(ambient, diffuse, specular, phong, reflectivity, opacity, index_of_refraction) ==
    [ambient |-> ambient, diffuse |-> diffuse, specular |-> specular,
     phong |-> phong, reflectivity |-> reflectivity,
     opacity |-> opacity, index_of_refraction |-> index_of_refraction]

-----------------------------------------------------------------------------
(* scene.rs: Light, ViewTransform, Scene, refract, perturb                 *)

Light(position, color, atten) == [position |-> position, color |-> color, atten |-> atten]

\* Light::shadow_ray
shadow_ray_of(light, point) == Ray(point, VSub(light.position, point))

\* Light::color: color * min(atten^2 / dist2, 1); a quotient by zero is
\* +infinity or NaN, and f64::min gives 1 for both
light_color(light, point) ==
    LET dist2 == RoundDiv(Dist2(point, light.position), One)
        atten == IF dist2 = 0 THEN One
                 ELSE Min(RoundDiv(Mul(light.atten, light.atten) * One, dist2), One)
    IN  CScale(light.color, atten)

OrthoView(frame) == [kind |-> "Ortho", frame |-> frame]

\* ViewTransform::project, the Ortho arm
project(view, local) ==
    Ray(project_point(view.frame, local), project_vec(view.frame, forward))

Scene(sdf, lights, view, far_plane) ==
    [sdf |-> sdf, lights |-> lights, view |-> view, far_plane |-> far_plane]

Pi == 31416

\* refract(incoming, normal, n1, n2); theta2 = asin(s) enters the rotation by
\* its sine s and its cosine sqrt(1 - s^2), theta1 = |acos(c)| by its sine
\* A NaN cosine makes both angles, and so every component of the result, NaN
refract(incoming, normal, n1, n2) ==
    IF Abs(n1 - n2) < 1 THEN incoming
    ELSE LET inc == Normalize(incoming)
             cos_theta1 == Neg(Dot(inc, normal))
         IN  IF cos_theta1 = NaN THEN Vec3(NaN, NaN, NaN)
             ELSE IF Abs(Abs(cos_theta1) - One) < 1 THEN inc
             ELSE LET c == Clamp(cos_theta1, -One, One)
                      sin_theta1 == Sqrt(One * One - c * c)
                      sin_theta2 == Clamp(RoundDiv(Mul(n1, sin_theta1) * One, n2), -One, One)
                      cos_theta2 == Sqrt(One * One - sin_theta2 * sin_theta2)
                      axis_of_rotation == Normalize(Cross(inc, normal))
                  IN  RotateSC(VScale(normal, Signum(Dot(inc, normal))),
                               sin_theta2, cos_theta2, axis_of_rotation)

\* perturb(ray, degrees), with the two values random() returns
perturb(ray, degrees, random1, random2) ==
    LET random_spread == RoundDiv(Mul(degrees, Pi), 180)
        r == Normalize(ray.direction)
        cross1 == Cross(r, right)
        axis1 == Normalize(IF Norm2(cross1) = 0 THEN Cross(r, up) ELSE cross1)
        axis2 == Normalize(Cross(axis1, r))
    IN  Ray(ray.origin,
            Rotate(Rotate(r, Mul(random1 * 2 - One, random_spread), axis1),
                   Mul(random2 * 2 - One, random_spread), axis2))

-----------------------------------------------------------------------------
(* scene.rs: Scene::raycast_pixel, Scene::raycast, Scene::get_color        *)

InitialBudget == 10

ray_count == 1

JitterDegrees == 100

ShadowJitterDegrees == 0

\* raycast_pixel, lines 101-107: the pixel in view coordinates
PixelLocalYDown(px, width, height) ==
    LET w2 == RoundDiv(width * One, 2)
        h2 == RoundDiv(height * One, 2)
    IN  Vec3(RoundDiv((px[1] * One - w2) * One, w2),
             RoundDiv((px[2] * One - h2) * One, h2), 0)

pixel_local(px, width, height) ==
    LET w2 == RoundDiv(width * One, 2)
        h2 == RoundDiv(height * One, 2)
    IN  Vec3(RoundDiv((px[1] * One - w2) * One, w2),
             RoundDiv((h2 - px[2] * One) * One, h2), 0)

\* The activation record of one raycast call and of the get_color call it
\* makes.  pc is the place reached; li the light of the `for light` loop, iter
\* the iterations of the shadow walk done for it.  History: via (who called),
\* filters and added (per light done: the filter after the walk, the colour
\* the light added), passed and first (the walk went through a translucent
\* solid, of that material), misses (secondary rays that missed),
\* refr_traced (the refraction entry ray was traced) and shadow_hit (the point
\* of the front-facing hit that ended the walk)
Activation(ray, refl_count, via) ==
    [pc |-> "raycast", ray |-> ray, refl_count |-> refl_count, via |-> via,
     hit |-> None, color |-> black, v |-> zero, adjusted_hit |-> zero,
     li |-> 0, iter |-> 0, shadow_ray |-> Ray(zero, zero), ld |-> zero,
     light_filter |-> white, filters |-> <<>>, added |-> <<>>,
     passed |-> FALSE, first |-> MaterialNew, misses |-> {},
     refr_traced |-> FALSE, shadow_hit |-> None]

\* get_color, the head of the `for light` loop (lines 145-155) for light i,
\* or the way out of the loop
enter_light(self, f, i) ==
    IF i <= Len(self.lights)
    THEN LET sr == shadow_ray_of(self.lights[i], f.adjusted_hit)
         IN  [f EXCEPT !.pc = "shadow", !.li = i, !.iter = 0,
                       !.shadow_ray = sr, !.ld = Normalize(sr.direction),
                       !.light_filter = white, !.passed = FALSE, !.shadow_hit = None]
    ELSE [f EXCEPT !.pc = "reflect", !.li = i]

GetColorEnterFromDiffuse(self, f, hit) ==
    enter_light(self,
        [f EXCEPT !.hit = Some(hit),
                  !.color = CScale(hit.material.diffuse, hit.material.opacity),
                  !.v = VScale(Normalize(hit.ray.direction), -One),
                  !.adjusted_hit = VAdd(hit.point, Epsilon(self.sdf), hit.normal)],
        1)

\* get_color, lines 131-137, then the first light
get_color_enter(self, f, hit) ==
    enter_light(self,
        [f EXCEPT !.hit = Some(hit),
                  !.color = CScale(hit.material.ambient, hit.material.opacity),
                  !.v = VScale(Normalize(hit.ray.direction), -One),
                  !.adjusted_hit = VAdd(hit.point, Epsilon(self.sdf), hit.normal)],
        1)

\* the shadow walk's loop header: for _ in 0..refl_count
ShadowWalkOffByOne(iter, refl_count) == iter <= refl_count

shadow_walk_goes_on(iter, refl_count) == iter < refl_count

\* lines 158-162: the raymarch of one iteration of the walk
shadow_march(self, f, random1, random2) ==
    raymarch(self.sdf, perturb(f.shadow_ray, ShadowJitterDegrees, random1, random2),
             Norm(f.shadow_ray.direction))

\* line 167
front_facing(hit, shadow_ray) == Lt(Dot(hit.normal, shadow_ray.direction), 0)

\* lines 113, 212 and 255: ray.origin.is_nan() || ray.direction.is_nan()
nan_ray(ray) == is_nan(ray.origin) \/ is_nan(ray.direction)

OccluderFilterAlwaysLerp(light_filter, material) ==
    CLerp(light_filter, material.opacity, material.diffuse)

\* lines 168-169 and 182-184: the filter behind a front-facing occluder
occluder_filter(light_filter, material) ==
    IF material.opacity < One
    THEN CLerp(light_filter, material.opacity, material.diffuse)
    ELSE black

\* lines 170-181: the shadow ray after a translucent occluder was entered at
\* hit; found says whether the back face was found
behind_translucent(self, light, hit, shadow_dir) ==
    LET sr0 == shadow_ray_of(light, hit.point)
        sr == Ray(VAdd(sr0.origin, Times(Epsilon(self.sdf), 2), shadow_dir), sr0.direction)
        refr == raymarch(NegatedRefSDF(self.sdf), sr, Norm(sr.direction))
    IN  IF refr.pc = "hit"
        THEN [found |-> TRUE,
              shadow_ray |-> Ray(VAdd(refr.hit.val.point, Times(Epsilon(self.sdf), 2), shadow_dir),
                                 sr.direction)]
        ELSE [found |-> FALSE, shadow_ray |-> sr]

\* lines 194-204: the colour after a light that is not filtered out
lit_color(self, f) ==
    LET hit == f.hit.val
        lc == CMultiply(f.light_filter, light_color(self.lights[f.li], hit.point))
        lr == VAdd(f.ld, -2 * One, OffAxis(f.ld, hit.normal))
        diffuse_strength == Max(Dot(f.ld, hit.normal), 0)
        specular_strength == Powf(Max(Dot(lr, f.v), 0), hit.material.phong)
    IN  CAdd(CAdd(f.color, Mul(diffuse_strength, hit.material.opacity),
                  CMultiply(hit.material.diffuse, lc)),
             specular_strength, hit.material.specular)

ReflectGuardNoBudget(material, refl_count) == material.reflectivity > 0

\* line 207
reflect_guard(material, refl_count) == material.reflectivity > 0 /\ refl_count > 0

RefractGuardNoBudget(material, refl_count) == material.opacity < One

\* line 221
refract_guard(material, refl_count) == material.opacity < One /\ refl_count > 0

\* lines 208-211
refl_ray(f) ==
    Ray(f.adjusted_hit, VAdd(f.v, -2 * One, OffAxis(f.v, f.hit.val.normal)))

\* lines 226-234: the ray into the solid
refr_entry_ray(self, hit) ==
    Ray(VAdd(hit.point, Neg(Times(Epsilon(self.sdf), 2)), hit.normal),
        refract(hit.ray.direction, hit.normal, VACUUM, hit.material.index_of_refraction))

\* lines 241-249: the ray out of the solid
refr_exit_ray(self, hit, farside_hit) ==
    Ray(VAdd(farside_hit.point, Neg(Times(Epsilon(self.sdf), 2)), farside_hit.normal),
        refract(farside_hit.ray.direction, farside_hit.normal,
                hit.material.index_of_refraction, VACUUM))

AccumulateAnd(color, col) ==
    IF color.is_some THEN Some(VPlus(color.val, col)) ELSE None

AccumulateStale(color, col) ==
    IF ret.is_some THEN Some(VPlus(ret.val, col)) ELSE Some(col)

\* line 121: color.map(|c| &c + &col).or(Some(col))
accumulate(color, col) ==
    IF color.is_some THEN Some(VPlus(color.val, col)) ELSE Some(col)

\* lines 117-124 for a ray that hit: the Option<Color> raycast returns
raycast_result(col) ==
    LET color == accumulate(None, col)
    IN  IF color.is_some THEN Some(CScale(color.val, RoundDiv(One, ray_count)))
        ELSE None

-----------------------------------------------------------------------------
(* The scenes, pixels and random values the shader is run on               *)

\* a half-silvered, half-transparent surface; a mirror; red glass (index 1.5);
\* a glossy wall; a matt surface
MirrorGlass == Material(Color(1000, 1000, 1000), white, black, 1, 5000, 5000, VACUUM)

Mirror == Material(Color(1000, 1000, 1000), white, black, 1, 5000, One, VACUUM)

Glass == Material(black, Color(One, 0, 0), white, 2, 0, 5000, 15000)

Glossy == Material(Color(500, 500, 500), white, white, 2, 3000, One, VACUUM)

Matt == Material(Color(2000, 2000, 2000), white, black, 1, 0, One, VACUUM)

\* half transparent, with the index of refraction of the vacuum
ClearGlass == Material(Color(1000, 1000, 1000), white, black, 1, 0, 5000, VACUUM)

\* the view of every scene but the corridor: two pixels are 0.03 apart
NarrowView == OrthoView(Frame(zero, Vec3(300, 0, 0), Vec3(0, 300, 0), forward))

\* two facing mirrors, z = 0.5 (half transparent) and z = 0.3, a ray bouncing
\* obliquely between them; one light inside the lower mirror's solid, one in
\* the gap
Corridor ==
    Scene(UnionSDF(MatSDF(TranslatedSDF(Plane(backward), Vec3(0, 0, 5000)), MirrorGlass),
                   MatSDF(TranslatedSDF(Plane(forward), Vec3(0, 0, 3000)), Mirror)),
          <<Light(Vec3(0, 0, 1000), white, 5000), Light(Vec3(0, 0, 4000), white, 5000)>>,
          OrthoView(Frame(Vec3(-8000, 0, 4000), Vec3(300, 0, 0), Vec3(0, 300, 0),
                          Vec3(6000, 0, 8000))),
          12000)

\* two facing opaque mirrors, the eye within epsilon of the upper one and a ray
\* bouncing head-on between them; the light in the gap
HeadOnCorridor ==
    Scene(UnionSDF(MatSDF(TranslatedSDF(Plane(backward), Vec3(0, 0, 5000)), Mirror),
                   MatSDF(TranslatedSDF(Plane(forward), Vec3(0, 0, 3000)), Mirror)),
          <<Light(Vec3(500, 0, 4000), white, 5000)>>,
          OrthoView(Frame(Vec3(0, 0, 4990), Vec3(300, 0, 0), Vec3(0, 300, 0), forward)),
          12000)

\* a tilted glossy wall lit from a light on its normal through the point the
\* central ray hits, with the given solids on the way from the wall to the light
TiltedWall == MatSDF(TranslatedSDF(Plane(Vec3(-6000, 0, -8000)), Vec3(0, 0, 8000)), Glossy)

NearBall(mat) == MatSDF(TranslatedSDF(Ball(500, 10), Vec3(-1800, 0, 5600)), mat)

FarBall(mat) == MatSDF(TranslatedSDF(Ball(500, 10), Vec3(-3600, 0, 3200)), mat)

\* a wall seen head-on and lit from the side, and an opaque ball behind the
\* light, as seen from the point of the wall that the central ray hits: the
\* ball's centre is 0.051 and its nearest point 0.001 beyond the light, and
\* nothing is between the wall and the light
BehindTheLight ==
    Scene(UnionSDF(MatSDF(TranslatedSDF(Plane(backward), Vec3(0, 0, 8000)), Matt),
                   MatSDF(TranslatedSDF(Ball(500, 10), Vec3(-6306, 0, -418)), Matt)),
          <<Light(Vec3(-6000, 0, -10), white, One)>>, NarrowView, 12000)

ShadowScene(sdf) ==
    Scene(sdf, <<Light(Vec3(-6000, 0, 0), white, One)>>, NarrowView, 12000)

\* a point seen head-on, lit from the side
PointScene ==
    Scene(MatSDF(PointSDF(Vec3(0, 0, 10000)), Matt),
          <<Light(Vec3(0, 5000, 10000), white, 5000)>>, NarrowView, 12000)

\* a glass ball in front of a matt backdrop, the light in front of the ball
GlassScene ==
    Scene(UnionSDF(MatSDF(TranslatedSDF(Ball(1000, 10), Vec3(0, 0, 4000)), Glass),
                   MatSDF(TranslatedSDF(Plane(backward), Vec3(0, 0, 9000)), Matt)),
          <<Light(Vec3(0, 0, 1000), white, 5000)>>, NarrowView, 12000)

\* a sphere whose radius is NaN (the scene file's `sphere nan 0 0 0.4`), and
\* no light: its distance, its epsilon and its normal are NaN everywhere
NanBall(mat) ==
    Scene(MatSDF(TranslatedSDF(Sphere(NaN), Vec3(0, 0, 4000)), mat),
          <<>>, NarrowView, 12000)

\* what the line `background 0.2 0.2 1` of a scene file makes (#3333ff), the
\* sphere of radius 100 scaled down to radius 2 around the eye
Backdrop ==
    MatSDF(NegationSDF(Sphere(2 * One)),
           [MaterialNew EXCEPT !.ambient = Color(2000, 2000, One),
                               !.diffuse = black, !.specular = black])

\* the scene of a file that has a background line and nothing else: no light
BackgroundOnly == Scene(Backdrop, <<>>, NarrowView, 30000)

\* a mirror seen obliquely and the background all around, no light: the
\* reflection ray of the mirror hits the background with budget 9
MirrorRoom ==
    Scene(UnionSDF(MatSDF(TranslatedSDF(Plane(backward), Vec3(0, 0, 1000)), Mirror),
                   Backdrop),
          <<>>,
          OrthoView(Frame(zero, Vec3(300, 0, 0), Vec3(0, 300, 0), Vec3(6000, 0, 8000))),
          30000)

Scenes ==
    { Corridor,
      BackgroundOnly,
      MirrorRoom,
      HeadOnCorridor,
      ShadowScene(TiltedWall),
      BehindTheLight,
      ShadowScene(UnionSDF(TiltedWall, NearBall(Matt))),
      ShadowScene(UnionSDF(UnionSDF(TiltedWall, NearBall(Glass)), FarBall(Matt))),
      ShadowScene(UnionSDF(UnionSDF(TiltedWall, NearBall(Glass)), FarBall(Glass))),
      PointScene,
      GlassScene,
      NanBall(Mirror),
      NanBall(ClearGlass),
      NanBall(Glass) }

\* (width, height); in an image of width 0 the x of pixel 0 is 0 / 0
Images == { <<2, 2>>, <<0, 2>> }

Pixels == { <<1, 1>>, <<0, 1>> }

\* more sizes, even and odd, of which every pixel is rendered, for the scene
\* that is a background alone
Sizes == { <<1, 1>>, <<1, 2>>, <<3, 3>>, <<4, 2>> }

PixelsOf(size) ==
    IF size \in Sizes THEN (0..size[1] - 1) \X (0..size[2] - 1) ELSE Pixels

\* what Math.random() is going to return, over and over: 0.5 leaves a ray as
\* it is, 0 and 0.9999 turn it by the whole spread
RngStreams == { <<Half, Half>>, <<0, One - 1, Half>> }

\* bound on the raycast_pixel calls of a run
MaxCalls == 2

-----------------------------------------------------------------------------
(* The shader, one step per raymarch issued or branch taken                *)

Top == stack[Len(stack)]

SetTop(f) == [stack EXCEPT ![Len(stack)] = f]

\* the stream after two calls of random()
Drawn(r) == SubSeq(r, 3, Len(r)) \o SubSeq(r, 1, 2)

\* the caller takes two values from random()
Draw2 ==
    /\ rng' = Drawn(rng)
    /\ draws' = draws \o SubSeq(rng, 1, 2)

\* raycast returns result to its caller; hit: its own raymarch hit
Return(result, hit, dr) ==
    /\ stack' = SubSeq(stack, 1, Len(stack) - 1)
    /\ ret' = result
    /\ last' = Some([hit |-> hit, result |-> result, misses |-> Top.misses,
                     refl_count |-> Top.refl_count, via |-> Top.via])
    /\ calls' = IF Len(stack) = 1
                THEN [calls EXCEPT ![Len(calls)] =
                        [@ EXCEPT !.open = FALSE, !.draws = dr,
                                  !.result = result, !.after = scene]]
                ELSE calls

Init ==
    /\ \/ scene \in Scenes /\ image \in Images
       \/ scene = BackgroundOnly /\ image \in Sizes
    /\ pixel = <<0, 0>>
    /\ stack = <<>> /\ ret = None /\ last = None
    /\ rng = <<Half, Half>> /\ draws = <<>> /\ calls = <<>>
    /\ mq = None /\ parser = None /\ probe = None
    /\ hex = None /\ viewport = None

\* Scene::raycast_pixel up to the call of raycast (lines 100-109)
RaycastPixel ==
    /\ stack = <<>>
    /\ Len(calls) < MaxCalls
    /\ \E px \in PixelsOf(image), r \in RngStreams :
        /\ image[1] = 0 => px[1] = 0
        /\ pixel' = px
        /\ rng' = r
        /\ \E local \in { pixel_local(px, image[1], image[2]) } :
            /\ stack' = <<Activation(project(scene.view, local), InitialBudget, "primary")>>
            /\ calls' = Append(calls, [pixel |-> px, image |-> image, local |-> local,
                                       before |-> scene, open |-> TRUE, draws |-> <<>>,
                                       result |-> None, after |-> scene])
    /\ draws' = <<>>
    /\ UNCHANGED <<mq, parser, probe, hex, viewport, scene, image, ret, last>>

\* Scene::raycast, lines 113-115: the ray has a NaN component
RaycastPanic ==
    /\ stack # <<>> /\ Top.pc = "raycast"
    /\ nan_ray(Top.ray)
    /\ stack' = SetTop([Top EXCEPT !.pc = "panic"])
    /\ UNCHANGED <<mq, parser, probe, hex, viewport, scene, image, pixel, ret, rng, draws, calls, last>>

\* In the actions below the result of a raymarch is bound once, as the only
\* element of a set, and then used by name.

\* Scene::raycast, lines 116-124, the raymarch misses: None
RaycastMiss ==
    /\ stack # <<>> /\ Top.pc = "raycast"
    /\ ~nan_ray(Top.ray)
    /\ \E m \in { raymarch(scene.sdf, perturb(Top.ray, JitterDegrees, rng[1], rng[2]),
                         scene.far_plane) } :
           /\ m.pc = "miss"
           /\ Return(None, FALSE, draws \o SubSeq(rng, 1, 2))
    /\ Draw2
    /\ UNCHANGED <<mq, parser, probe, hex, viewport, scene, image, pixel>>

\* Scene::raycast, line 119-120, the raymarch hits: get_color is entered
RaycastHit ==
    /\ stack # <<>> /\ Top.pc = "raycast"
    /\ ~nan_ray(Top.ray)
    /\ \E m \in { raymarch(scene.sdf, perturb(Top.ray, JitterDegrees, rng[1], rng[2]),
                         scene.far_plane) } :
           /\ m.pc = "hit"
           /\ stack' = SetTop(get_color_enter(scene, Top, m.hit.val))
    /\ Draw2
    /\ UNCHANGED <<mq, parser, probe, hex, viewport, scene, image, pixel, ret, calls, last>>

\* the locals of the shadow walk's loop body, lines 158-166
WalkOn == stack # <<>> /\ Top.pc = "shadow" /\ shadow_walk_goes_on(Top.iter, Top.refl_count)

\* the walk has run refl_count iterations: the loop ends (line 157)
ShadowExhausted ==
    /\ stack # <<>> /\ Top.pc = "shadow"
    /\ ~shadow_walk_goes_on(Top.iter, Top.refl_count)
    /\ stack' = SetTop([Top EXCEPT !.pc = "lit"])
    /\ UNCHANGED <<mq, parser, probe, hex, viewport, scene, image, pixel, ret, rng, draws, calls, last>>

\* lines 163-165: nothing between the shadow ray's origin and the light
ShadowMiss ==
    /\ WalkOn
    /\ shadow_march(scene, Top, rng[1], rng[2]).pc = "miss"
    /\ stack' = SetTop([Top EXCEPT !.pc = "lit", !.iter = @ + 1,
                                   !.misses = @ \cup {"shadow"}])
    /\ Draw2
    /\ UNCHANGED <<mq, parser, probe, hex, viewport, scene, image, pixel, ret, calls, last>>

\* lines 167, 182-185: a front-facing opaque occluder
ShadowOpaque ==
    /\ WalkOn
    /\ \E m \in { shadow_march(scene, Top, rng[1], rng[2]) } :
           /\ m.pc = "hit"
           /\ front_facing(m.hit.val, Top.shadow_ray)
           /\ ~(m.hit.val.material.opacity < One)
           /\ stack' = SetTop([Top EXCEPT
                    !.pc = "lit", !.iter = @ + 1,
                    !.light_filter = occluder_filter(@, m.hit.val.material),
                    !.shadow_hit = Some(m.hit.val.point)])
    /\ Draw2
    /\ UNCHANGED <<mq, parser, probe, hex, viewport, scene, image, pixel, ret, calls, last>>

\* lines 167-181, 185: a front-facing translucent occluder
ShadowTranslucent ==
    /\ WalkOn
    /\ \E m \in { shadow_march(scene, Top, rng[1], rng[2]) },
          shadow_dir \in { Normalize(Top.shadow_ray.direction) } :
           /\ m.pc = "hit"
           /\ front_facing(m.hit.val, Top.shadow_ray)
           /\ m.hit.val.material.opacity < One
           /\ \E b \in { behind_translucent(scene, scene.lights[Top.li], m.hit.val, shadow_dir) } :
                  stack' = SetTop([Top EXCEPT
                    !.pc = "lit", !.iter = @ + 1,
                    !.light_filter = occluder_filter(@, m.hit.val.material),
                    !.shadow_hit = Some(m.hit.val.point),
                    !.shadow_ray = b.shadow_ray,
                    !.passed = b.found, !.first = m.hit.val.material,
                    !.misses = IF b.found THEN @ ELSE @ \cup {"shadow_back_face"}])
    /\ Draw2
    /\ UNCHANGED <<mq, parser, probe, hex, viewport, scene, image, pixel, ret, calls, last>>

\* lines 167, 187-188: a hit that is not front-facing
ShadowBackFace ==
    /\ WalkOn
    /\ \E m \in { shadow_march(scene, Top, rng[1], rng[2]) },
          shadow_dir \in { Normalize(Top.shadow_ray.direction) } :
           /\ m.pc = "hit"
           /\ ~front_facing(m.hit.val, Top.shadow_ray)
           /\ stack' = SetTop([Top EXCEPT
                    !.iter = @ + 1,
                    !.shadow_ray = Ray(VAdd(m.hit.val.point, Times(Epsilon(scene.sdf), 2), shadow_dir),
                                       @.direction)])
    /\ Draw2
    /\ UNCHANGED <<mq, parser, probe, hex, viewport, scene, image, pixel, ret, calls, last>>

\* lines 191-193: the light is filtered out
LightSkip ==
    /\ stack # <<>> /\ Top.pc = "lit"
    /\ IsBlack(Top.light_filter)
    /\ stack' = SetTop(enter_light(scene,
                    [Top EXCEPT !.filters = Append(@, Top.light_filter),
                                !.added = Append(@, black)],
                    Top.li + 1))
    /\ UNCHANGED <<mq, parser, probe, hex, viewport, scene, image, pixel, ret, rng, draws, calls, last>>

\* lines 194-204: the light's diffuse and specular parts are added
LightAdd ==
    /\ stack # <<>> /\ Top.pc = "lit"
    /\ ~IsBlack(Top.light_filter)
    /\ LET color == lit_color(scene, Top)
       IN  stack' = SetTop(enter_light(scene,
                    [Top EXCEPT !.color = color,
                                !.filters = Append(@, Top.light_filter),
                                !.added = Append(@, VSub(color, Top.color))],
                    Top.li + 1))
    /\ UNCHANGED <<mq, parser, probe, hex, viewport, scene, image, pixel, ret, rng, draws, calls, last>>

\* lines 207-216: the reflection ray is cast
ReflectCall ==
    /\ stack # <<>> /\ Top.pc = "reflect"
    /\ reflect_guard(Top.hit.val.material, Top.refl_count)
    /\ ~nan_ray(refl_ray(Top))
    /\ stack' = Append(SetTop([Top EXCEPT !.pc = "reflect_ret"]),
                       Activation(refl_ray(Top), Top.refl_count - 1, "reflect"))
    /\ UNCHANGED <<mq, parser, probe, hex, viewport, scene, image, pixel, ret, rng, draws, calls, last>>

\* lines 212-215: the reflection ray has a NaN component
ReflectPanic ==
    /\ stack # <<>> /\ Top.pc = "reflect"
    /\ reflect_guard(Top.hit.val.material, Top.refl_count)
    /\ nan_ray(refl_ray(Top))
    /\ stack' = SetTop([Top EXCEPT !.pc = "panic"])
    /\ UNCHANGED <<mq, parser, probe, hex, viewport, scene, image, pixel, ret, rng, draws, calls, last>>

\* line 207, the test fails
ReflectSkip ==
    /\ stack # <<>> /\ Top.pc = "reflect"
    /\ ~reflect_guard(Top.hit.val.material, Top.refl_count)
    /\ stack' = SetTop([Top EXCEPT !.pc = "refract"])
    /\ UNCHANGED <<mq, parser, probe, hex, viewport, scene, image, pixel, ret, rng, draws, calls, last>>

\* lines 216-218: the reflection raycast has returned
ReflectReturn ==
    /\ stack # <<>> /\ Top.pc = "reflect_ret"
    /\ LET material == Top.hit.val.material
       IN  stack' = SetTop(
            IF ret.is_some
            THEN [Top EXCEPT !.pc = "refract",
                             !.color = CAdd(@, Mul(material.reflectivity, material.opacity),
                                            ret.val)]
            ELSE [Top EXCEPT !.pc = "refract", !.misses = @ \cup {"reflection"}])
    /\ UNCHANGED <<mq, parser, probe, hex, viewport, scene, image, pixel, ret, rng, draws, calls, last>>

\* line 221, the test fails
RefractSkip ==
    /\ stack # <<>> /\ Top.pc = "refract"
    /\ ~refract_guard(Top.hit.val.material, Top.refl_count)
    /\ stack' = SetTop([Top EXCEPT !.pc = "done"])
    /\ UNCHANGED <<mq, parser, probe, hex, viewport, scene, image, pixel, ret, rng, draws, calls, last>>

\* lines 228-233: refract, called for the ray into the solid, panics on its
\* NaN result (lines 424-429)
RefractEntryPanic ==
    /\ stack # <<>> /\ Top.pc = "refract"
    /\ refract_guard(Top.hit.val.material, Top.refl_count)
    /\ is_nan(refr_entry_ray(scene, Top.hit.val).direction)
    /\ stack' = SetTop([Top EXCEPT !.pc = "panic"])
    /\ UNCHANGED <<mq, parser, probe, hex, viewport, scene, image, pixel, ret, rng, draws, calls, last>>

\* lines 226-239: the ray into the solid does not find the far side
RefractNoFarside ==
    /\ stack # <<>> /\ Top.pc = "refract"
    /\ refract_guard(Top.hit.val.material, Top.refl_count)
    /\ ~is_nan(refr_entry_ray(scene, Top.hit.val).direction)
    /\ raymarch(NegatedRefSDF(scene.sdf), refr_entry_ray(scene, Top.hit.val),
                scene.far_plane).pc = "miss"
    /\ stack' = SetTop([Top EXCEPT !.pc = "done", !.refr_traced = TRUE,
                                   !.misses = @ \cup {"refraction_entry"}])
    /\ UNCHANGED <<mq, parser, probe, hex, viewport, scene, image, pixel, ret, rng, draws, calls, last>>

\* lines 226-259: the far side is found and the ray out of the solid is cast
RefractCall ==
    /\ stack # <<>> /\ Top.pc = "refract"
    /\ refract_guard(Top.hit.val.material, Top.refl_count)
    /\ ~is_nan(refr_entry_ray(scene, Top.hit.val).direction)
    /\ \E m \in { raymarch(NegatedRefSDF(scene.sdf), refr_entry_ray(scene, Top.hit.val),
                         scene.far_plane) } :
           /\ m.pc = "hit"
           /\ ~nan_ray(refr_exit_ray(scene, Top.hit.val, m.hit.val))
           /\ stack' = Append(SetTop([Top EXCEPT !.pc = "refract_ret", !.refr_traced = TRUE]),
                              Activation(refr_exit_ray(scene, Top.hit.val, m.hit.val),
                                         Top.refl_count - 1, "refract"))
    /\ UNCHANGED <<mq, parser, probe, hex, viewport, scene, image, pixel, ret, rng, draws, calls, last>>

\* lines 239-258: the far side is found and the ray out of the solid has a NaN
\* component (refract panics on a NaN direction, line 255 on a NaN origin)
RefractPanic ==
    /\ stack # <<>> /\ Top.pc = "refract"
    /\ refract_guard(Top.hit.val.material, Top.refl_count)
    /\ ~is_nan(refr_entry_ray(scene, Top.hit.val).direction)
    /\ \E m \in { raymarch(NegatedRefSDF(scene.sdf), refr_entry_ray(scene, Top.hit.val),
                         scene.far_plane) } :
           /\ m.pc = "hit"
           /\ nan_ray(refr_exit_ray(scene, Top.hit.val, m.hit.val))
           /\ stack' = SetTop([Top EXCEPT !.pc = "panic", !.refr_traced = TRUE])
    /\ UNCHANGED <<mq, parser, probe, hex, viewport, scene, image, pixel, ret, rng, draws, calls, last>>

\* lines 259-265: the refraction raycast has returned
RefractReturn ==
    /\ stack # <<>> /\ Top.pc = "refract_ret"
    /\ stack' = SetTop(
            IF ret.is_some
            THEN [Top EXCEPT !.pc = "done",
                             !.color = CAdd(@, One - Top.hit.val.material.opacity, ret.val)]
            ELSE [Top EXCEPT !.pc = "done", !.misses = @ \cup {"refraction_exit"}])
    /\ UNCHANGED <<mq, parser, probe, hex, viewport, scene, image, pixel, ret, rng, draws, calls, last>>

\* line 269, then lines 120-124: get_color returns and raycast returns
RaycastReturn ==
    /\ stack # <<>> /\ Top.pc = "done"
    /\ Return(raycast_result(Top.color), TRUE, draws)
    /\ UNCHANGED <<mq, parser, probe, hex, viewport, scene, image, pixel, rng, draws>>

Next ==
    \/ RaycastPixel \/ RaycastPanic \/ RaycastMiss \/ RaycastHit
    \/ ShadowExhausted \/ ShadowMiss \/ ShadowOpaque \/ ShadowTranslucent \/ ShadowBackFace
    \/ LightSkip \/ LightAdd
    \/ ReflectCall \/ ReflectPanic \/ ReflectSkip \/ ReflectReturn
    \/ RefractSkip \/ RefractEntryPanic \/ RefractNoFarside \/ RefractCall \/ RefractPanic
    \/ RefractReturn
    \/ RaycastReturn

Spec == Init /\ [][Next]_vars

\* every raymarch the shader issues returns within MaxSteps iterations
MarchesReturn ==
    stack # <<>> =>
        /\ (Top.pc = "raycast" /\ ~nan_ray(Top.ray)) =>
            raymarch(scene.sdf, perturb(Top.ray, JitterDegrees, rng[1], rng[2]),
                     scene.far_plane).pc # "loop"
        /\ (Top.pc = "shadow" /\ Top.iter < Top.refl_count) =>
            shadow_march(scene, Top, rng[1], rng[2]).pc # "loop"
        /\ (/\ Top.pc = "refract" /\ refract_guard(Top.hit.val.material, Top.refl_count)
            /\ ~is_nan(refr_entry_ray(scene, Top.hit.val).direction)) =>
            raymarch(NegatedRefSDF(scene.sdf), refr_entry_ray(scene, Top.hit.val),
                     scene.far_plane).pc # "loop"

-----------------------------------------------------------------------------
(* Claims about the shader, checked under Spec                             *)

\* C4: raycast returns None exactly when the raymarch of its own ray misses;
\* when that raymarch hits, the result is Some(colour) whichever of the
\* shadow, reflection and refraction rays spawned while shading missed.
C4_NoneIffPrimaryMiss ==
    last.is_some => (last.val.result.is_some <=> last.val.hit)

\* a raycast returned a colour although two kinds of its secondary rays missed
C4_Witness ==
    /\ last.is_some /\ last.val.hit /\ last.val.result.is_some
    /\ {"shadow", "reflection"} \subseteq last.val.misses

\* C5: the raycast at the bottom of the stack has budget 10, every raycast
\* above it was called with its caller's budget less one by a caller whose
\* budget was above 0, no budget is below 0, and at most 11 raycasts nest.
C5_RecursionBounded ==
    /\ Len(stack) <= InitialBudget + 1
    /\ \A i \in 1..Len(stack) :
        /\ stack[i].refl_count >= 0
        /\ i = 1 => stack[i].refl_count = InitialBudget /\ stack[i].via = "primary"
        /\ i > 1 => /\ stack[i].refl_count = stack[i - 1].refl_count - 1
                    /\ stack[i - 1].refl_count > 0
                    /\ stack[i].via \in {"reflect", "refract"}

\* eleven raycasts nest and the innermost, with budget 0, has shaded its hit
C5_Witness ==
    /\ Len(stack) = InitialBudget + 1
    /\ Top.refl_count = 0 /\ Top.pc = "done"

\* C6: in every get_color call, the shadow walk of the light in hand has
\* raymarched the scene at most refl_count times.
C6_ShadowWalkBounded ==
    \A i \in 1..Len(stack) : stack[i].iter <= stack[i].refl_count

\* a walk that met a hit, went on, and was ended by the budget
C6_Witness ==
    /\ stack # <<>> /\ Top.pc = "shadow"
    /\ Top.refl_count >= 1 /\ Top.iter = Top.refl_count

\* the first thing the shadow ray from the adjusted hit point of f to light l
\* meets is a front-facing occluder of opacity 1
OpaqueInTheWay(f, l) ==
    LET sr == shadow_ray_of(scene.lights[l], f.adjusted_hit)
        m == raymarch(scene.sdf, perturb(sr, ShadowJitterDegrees, Half, Half),
                      Norm(sr.direction))
    IN  /\ m.pc = "hit"
        /\ Dot(m.hit.val.normal, sr.direction) < 0
        /\ m.hit.val.material.opacity = One

\* C7 as claimed: in every get_color call, whatever the budget, a light whose
\* shadow ray first meets a front-facing opaque occluder ends with a black
\* filter and adds nothing to the colour.
C7_OpaqueOccluderAnyBudget ==
    stack # <<>> =>
        \A l \in 1..Len(Top.filters) :
            OpaqueInTheWay(Top, l) =>
                IsBlack(Top.filters[l]) /\ IsBlack(Top.added[l])

\* C7 as amended: in every get_color call with a budget of 1 or more, a light
\* whose shadow ray first meets a front-facing opaque occluder ends with a
\* black filter and adds neither a diffuse nor a specular part to the colour.
C7_OpaqueOccluderBlocksLight ==
    stack # <<>> =>
        \A l \in 1..Len(Top.filters) :
            (Top.refl_count >= 1 /\ OpaqueInTheWay(Top, l)) =>
                IsBlack(Top.filters[l]) /\ IsBlack(Top.added[l])

\* a light behind an opaque occluder has been filtered out
C7_Witness ==
    /\ stack # <<>> /\ Top.refl_count >= 1
    /\ \E l \in 1..Len(Top.filters) :
        OpaqueInTheWay(Top, l) /\ IsBlack(Top.filters[l])

\* C8: when the walk has gone through a front-facing translucent solid, found
\* its back face and has budget left, the occluder the reissued shadow ray
\* meets next counts: an opaque one makes the filter black, a translucent one
\* is lerped into the filter.
C8_WalkGoesOnBehindTranslucent ==
    (stack # <<>> /\ Top.pc = "lit" /\ Top.passed /\ Top.iter < Top.refl_count) =>
        LET sr == Top.shadow_ray
            m == raymarch(scene.sdf, perturb(sr, ShadowJitterDegrees, Half, Half),
                          Norm(sr.direction))
        IN  (m.pc = "hit" /\ Dot(m.hit.val.normal, sr.direction) < 0) =>
                IF m.hit.val.material.opacity < One
                THEN Top.light_filter =
                        CLerp(CLerp(white, Top.first.opacity, Top.first.diffuse),
                              m.hit.val.material.opacity, m.hit.val.material.diffuse)
                ELSE IsBlack(Top.light_filter)

\* C9: a raycast called for a reflection has a caller whose hit material has
\* reflectivity > 0 and whose budget is > 0; the refraction entry ray is
\* traced, and a raycast called for a refraction, only with opacity < 1 and
\* budget > 0; a get_color on a material of reflectivity 0 and opacity 1, or
\* with budget 0, calls no raycast.
C9_RecursionGuards ==
    \A i \in 1..Len(stack) :
        stack[i].hit.is_some =>
            LET material == stack[i].hit.val.material
                refl_count == stack[i].refl_count
                calls_reflect == i < Len(stack) /\ stack[i + 1].via = "reflect"
                calls_refract == i < Len(stack) /\ stack[i + 1].via = "refract"
            IN  /\ calls_reflect => material.reflectivity > 0 /\ refl_count > 0
                /\ calls_refract => material.opacity < One /\ refl_count > 0
                /\ stack[i].refr_traced => material.opacity < One /\ refl_count > 0
                /\ ((material.reflectivity = 0 /\ material.opacity = One) \/ refl_count = 0)
                        => i = Len(stack) /\ ~stack[i].refr_traced

\* a hit on a reflective, translucent material shaded with budget 0
C9_Witness ==
    /\ stack # <<>> /\ Top.pc = "done" /\ Top.refl_count = 0
    /\ Top.hit.val.material.reflectivity > 0
    /\ Top.hit.val.material.opacity < One

\* C10 as claimed: two raycast_pixel calls on the same scene with the same
\* pixel and image size return the same Option<Color>, and a call leaves the
\* scene as it was.
C10_PureFunctionOfPixel ==
    \A i, j \in 1..Len(calls) :
        (/\ ~calls[i].open /\ ~calls[j].open
         /\ calls[i].before = calls[j].before
         /\ calls[i].pixel = calls[j].pixel /\ calls[i].image = calls[j].image)
        => calls[i].result = calls[j].result /\ calls[i].after = calls[i].before

\* C10 as amended: two raycast_pixel calls on the same scene with the same
\* pixel and image size during which Math.random() returns the same values
\* return the same Option<Color>, and a call leaves the scene as it was.
C10_PureFunctionOfPixelAndRandom ==
    \A i, j \in 1..Len(calls) :
        (/\ ~calls[i].open /\ ~calls[j].open
         /\ calls[i].before = calls[j].before
         /\ calls[i].pixel = calls[j].pixel /\ calls[i].image = calls[j].image
         /\ calls[i].draws = calls[j].draws)
        => calls[i].result = calls[j].result /\ calls[i].after = calls[i].before

\* two calls for the same pixel drew the same jitter and returned a colour
C10_Witness ==
    \E i, j \in 1..Len(calls) :
        /\ i # j /\ ~calls[i].open /\ ~calls[j].open
        /\ calls[i].pixel = calls[j].pixel
        /\ calls[i].draws = calls[j].draws /\ 0 \in {calls[i].draws[k] : k \in 1..Len(calls[i].draws)}
        /\ calls[i].result.is_some /\ calls[i].result = calls[j].result

\* what holds of the NaN checks: a raycast whose ray has a NaN component goes
\* from its entry to the panic without a raymarch, and no raycast is ever
\* called for a reflection or a refraction with such a ray
NanRaysNotCast ==
    \A i \in 1..Len(stack) :
        /\ nan_ray(stack[i].ray) =>
                stack[i].pc \in {"raycast", "panic"} /\ ~stack[i].hit.is_some
        /\ stack[i].via \in {"reflect", "refract"} => ~nan_ray(stack[i].ray)

\* C11: a raycast whose ray has a NaN component panics before it issues a
\* raymarch, and a reflection or refraction ray with a NaN component halts
\* rendering instead of being traced: no raycast is called with it and no
\* raymarch is issued on it.
C11_NanRaysHaltUntraced ==
    /\ NanRaysNotCast
    /\ \A i \in 1..Len(stack) :
            stack[i].refr_traced => ~nan_ray(refr_entry_ray(scene, stack[i].hit.val))

-----------------------------------------------------------------------------
(* scene.rs: Scene::parse                                                  *)

\* The text of a line is a sequence of pieces: " " for a run of white space,
\* "#" for that character, any other string for a run of other characters.
\* Two pieces that follow each other without " " between them are one word.
IsSpace(piece) == piece = " "

RECURSIVE TrimStart(_)
TrimStart(line) ==
    IF line # <<>> /\ IsSpace(Head(line)) THEN TrimStart(Tail(line)) ELSE line

RECURSIVE TrimEnd(_)
TrimEnd(line) ==
    IF line # <<>> /\ IsSpace(line[Len(line)])
    THEN TrimEnd(SubSeq(line, 1, Len(line) - 1)) ELSE line

\* str::trim
Trim(line) == TrimEnd(TrimStart(line))

\* line 287: the trimmed line is skipped
Skipped(line) == IF Trim(line) = <<>> THEN TRUE ELSE Head(Trim(line)) = "#"

\* line 290: the words between the runs of white space
Split(line) == SelectSeq(line, LAMBDA piece : ~IsSpace(piece))

Command(line) == Head(Split(Trim(line)))

Arguments(line) == Tail(Split(Trim(line)))

\* str::parse::<f64>, for the words of the model's lines: Ok(value) or Err
parse_f64(word) ==
    CASE word = "0" -> Some(0)
      [] word = "0.5" -> Some(Half)
      [] word = "1" -> Some(One)
      [] word = "2" -> Some(2 * One)
      [] word = "4" -> Some(4 * One)
      [] word = "60" -> Some(60 * One)
      [] OTHER -> None

\* every .parse().unwrap() of an arm returns
AllParse(arguments) == \A i \in 1..Len(arguments) : parse_f64(arguments[i]).is_some

Num(word) == parse_f64(word).val

PerspView(eye_frame, near, fov_degrees) ==
    [kind |-> "Persp", eye_frame |-> eye_frame, near |-> near,
     fov_degrees |-> fov_degrees]

default_attenuation == 500000

BackgroundRadius == 1000000

\* the locals of parse before the first line (lines 273-283)
ParseLocals ==
    [objects |-> <<>>, lights |-> <<>>, view |-> OrthoView(FrameIdentity),
     far_plane |-> 1000 * One, material |-> MaterialNew, poly_vertices |-> <<>>]

\* The arms of the match, lines 294-376: the locals after the arm, for
\* arguments every one of which parses
arm_fov(l, a) ==
    [l EXCEPT !.view = PerspView(Frame(zero, right, up, backward), One, Num(a[1]))]

arm_light(l, a) ==
    [l EXCEPT !.lights = Append(@,
        Light(Vec3(Num(a[1]), Num(a[2]), Num(a[3])),
              Color(Num(a[4]), Num(a[5]), Num(a[6])), default_attenuation))]

\* phong is kept as the whole exponent, as Powf takes it
arm_surface(l, a) ==
    [l EXCEPT !.material =
        [MaterialNew EXCEPT
            !.ambient = Color(Num(a[4]), Num(a[5]), Num(a[6])),
            !.diffuse = Color(Num(a[1]), Num(a[2]), Num(a[3])),
            !.specular = Color(Num(a[7]), Num(a[8]), Num(a[9])),
            !.phong = Num(a[10]) \div One,
            !.reflectivity = Num(a[11])]]

ArmSphereDefaultMaterial(l, a) ==
    [l EXCEPT !.objects = Append(@,
        MatSDF(TranslatedSDF(Sphere(Num(a[1])), Vec3(Num(a[2]), Num(a[3]), Num(a[4]))),
               MaterialNew))]

arm_sphere(l, a) ==
    [l EXCEPT !.objects = Append(@,
        MatSDF(TranslatedSDF(Sphere(Num(a[1])), Vec3(Num(a[2]), Num(a[3]), Num(a[4]))),
               l.material))]

arm_background(l, a) ==
    [l EXCEPT !.objects = Append(@,
        MatSDF(NegationSDF(Sphere(BackgroundRadius)),
               [MaterialNew EXCEPT !.ambient = Color(Num(a[1]), Num(a[2]), Num(a[3])),
                                   !.diffuse = black, !.specular = black]))]

arm_begin(l) == [l EXCEPT !.poly_vertices = <<>>]

ArmEndResets(l) ==
    [l EXCEPT !.objects = Append(@, MatSDF(PolyFace(l.poly_vertices), l.material)),
              !.poly_vertices = <<>>]

arm_end(l) ==
    [l EXCEPT !.objects = Append(@, MatSDF(PolyFace(l.poly_vertices), l.material))]

arm_vertex(l, a) ==
    [l EXCEPT !.poly_vertices = Append(@, Vec3(Num(a[1]), Num(a[2]), Num(a[3])))]

ArmWriteForgets(l, a) == [l EXCEPT !.poly_vertices = <<>>, !.material = MaterialNew]

arm_write(l, a) == l

\* the last arm: the line is logged
arm_unknown(l, command, a) == l

\* the pattern of an arm matches: the command word and the number of arguments
Matches(line, command, n) ==
    ~Skipped(line) /\ Command(line) = command /\ Len(Arguments(line)) = n

\* no arm but the last matches
Unmatched(line) ==
    /\ ~Skipped(line)
    /\ \A arm \in { <<"fov", 1>>, <<"light", 6>>, <<"surface", 11>>, <<"sphere", 4>>,
                    <<"background", 3>>, <<"begin", 0>>, <<"end", 0>>, <<"vertex", 3>>,
                    <<"write", 1>> } :
            ~(Command(line) = arm[1] /\ Len(Arguments(line)) = arm[2])

FoldObjectsRight(objects) ==
    LET RECURSIVE fold(_)
        fold(n) == IF n = Len(objects) THEN objects[n]
                   ELSE UnionSDF(objects[n], fold(n + 1))
    IN  IF objects = <<>> THEN EmptySDF ELSE fold(1)

\* lines 380-387: the objects folded into one SDF
fold_objects(objects) ==
    LET RECURSIVE fold(_)
        fold(n) == IF n = 1 THEN objects[1]
                   ELSE UnionSDF(fold(n - 1), objects[n])
    IN  IF objects = <<>> THEN EmptySDF ELSE fold(Len(objects))

-----------------------------------------------------------------------------
(* The parser, one step per line read                                      *)

Surface1 ==
    <<"surface", " ", "1", " ", "0", " ", "0", " ", "0.5", " ", "0", " ", "0", " ",
      "1", " ", "1", " ", "1", " ", "2", " ", "0.5">>

Surface2 ==
    <<"surface", " ", "0", " ", "0", " ", "1", " ", "0", " ", "0", " ", "0.5", " ",
      "0", " ", "0", " ", "0", " ", "1", " ", "0">>

\* the lines a scene file of the model is made of
Lines ==
    { <<" ">>,
      <<" ", "#", "end">>,
      <<"fov", " ", "60">>,
      <<"light", " ", "0", " ", "1", " ", "0", " ", "1", " ", "1", " ", "1">>,
      Surface1,
      Surface2,
      <<"sphere", " ", "1", " ", "0", " ", "0", " ", "4">>,
      <<" ", "sphere", " ", "0.5", " ", "1", " ", "0", " ", "2", " ">>,
      <<"sphere", " ", "1", " ", "0", " ", "0">>,
      <<"sphere", " ", "1", " ", "0", " ", "zero", " ", "4">>,
      <<"background", " ", "0.5", " ", "0.5", " ", "1">>,
      <<"begin">>,
      <<"begin", " ", "polygon">>,
      <<"vertex", " ", "0", " ", "0", " ", "1">>,
      <<"vertex", " ", "1", " ", "0", " ", "1">>,
      <<"vertex", " ", "0", " ", "1", " ", "1">>,
      <<"end">>,
      <<"write", " ", "out.png">>,
      <<"cone", " ", "1">> }

\* bound on the lines of a scene file
MaxLines == 4

ParseInit ==
    /\ parser = [pc |-> "lines", read |-> <<>>, l |-> ParseLocals]
    /\ scene = None
    /\ mq = None /\ probe = None /\ image = <<1, 1>> /\ pixel = <<0, 0>>
    /\ stack = <<>> /\ ret = None /\ rng = <<>> /\ draws = <<>> /\ calls = <<>>
    /\ last = None /\ hex = None /\ viewport = None

parseVars == <<mq, probe, image, pixel, stack, ret, rng, draws, calls, last, hex, viewport>>

\* the for loop of line 285 takes one more line
Reading == parser.pc = "lines" /\ Len(parser.read) < MaxLines

\* the locals after the line, which is now read
Read(line, l) ==
    /\ parser' = [parser EXCEPT !.read = Append(@, line), !.l = l]
    /\ UNCHANGED <<scene, parseVars>>

\* lines 286-289
ParseSkip ==
    /\ Reading
    /\ \E line \in Lines : Skipped(line) /\ Read(line, parser.l)

ParseFov ==
    /\ Reading
    /\ \E line \in Lines :
        /\ Matches(line, "fov", 1) /\ AllParse(Arguments(line))
        /\ Read(line, arm_fov(parser.l, Arguments(line)))

ParseLight ==
    /\ Reading
    /\ \E line \in Lines :
        /\ Matches(line, "light", 6) /\ AllParse(Arguments(line))
        /\ Read(line, arm_light(parser.l, Arguments(line)))

ParseSurface ==
    /\ Reading
    /\ \E line \in Lines :
        /\ Matches(line, "surface", 11) /\ AllParse(Arguments(line))
        /\ Read(line, arm_surface(parser.l, Arguments(line)))

ParseSphere ==
    /\ Reading
    /\ \E line \in Lines :
        /\ Matches(line, "sphere", 4) /\ AllParse(Arguments(line))
        /\ Read(line, arm_sphere(parser.l, Arguments(line)))

ParseBackground ==
    /\ Reading
    /\ \E line \in Lines :
        /\ Matches(line, "background", 3) /\ AllParse(Arguments(line))
        /\ Read(line, arm_background(parser.l, Arguments(line)))

ParseBegin ==
    /\ Reading
    /\ \E line \in Lines : Matches(line, "begin", 0) /\ Read(line, arm_begin(parser.l))

ParseEnd ==
    /\ Reading
    /\ \E line \in Lines : Matches(line, "end", 0) /\ Read(line, arm_end(parser.l))

ParseVertex ==
    /\ Reading
    /\ \E line \in Lines :
        /\ Matches(line, "vertex", 3) /\ AllParse(Arguments(line))
        /\ Read(line, arm_vertex(parser.l, Arguments(line)))

ParseWrite ==
    /\ Reading
    /\ \E line \in Lines :
        /\ Matches(line, "write", 1)
        /\ Read(line, arm_write(parser.l, Arguments(line)))

\* lines 374-376
ParseUnknown ==
    /\ Reading
    /\ \E line \in Lines :
        /\ Unmatched(line)
        /\ Read(line, arm_unknown(parser.l, Command(line), Arguments(line)))

\* an arm that parses its arguments matches and an unwrap() panics
ParsePanic ==
    /\ Reading
    /\ \E line \in Lines :
        /\ \/ Matches(line, "fov", 1) \/ Matches(line, "light", 6)
           \/ Matches(line, "surface", 11) \/ Matches(line, "sphere", 4)
           \/ Matches(line, "background", 3) \/ Matches(line, "vertex", 3)
        /\ ~AllParse(Arguments(line))
        /\ parser' = [parser EXCEPT !.pc = "panic", !.read = Append(@, line)]
    /\ UNCHANGED <<scene, parseVars>>

\* lines 380-395: no line is left; the Scene is built
ParseReturn ==
    /\ parser.pc = "lines"
    /\ parser' = [parser EXCEPT !.pc = "done"]
    /\ scene' = Scene(fold_objects(parser.l.objects), parser.l.lights, parser.l.view,
                      parser.l.far_plane)
    /\ UNCHANGED parseVars

ParseNext ==
    \/ ParseSkip \/ ParseFov \/ ParseLight \/ ParseSurface \/ ParseSphere
    \/ ParseBackground \/ ParseBegin \/ ParseEnd \/ ParseVertex \/ ParseWrite
    \/ ParseUnknown \/ ParsePanic \/ ParseReturn

ParseSpec == ParseInit /\ [][ParseNext]_vars

-----------------------------------------------------------------------------
(* Claims about Scene::parse, checked under ParseSpec                      *)

\* the line has the command word and the number of arguments of an arm, and
\* its arguments are numbers
Accepted(line, command, n) == Matches(line, command, n) /\ AllParse(Arguments(line))

ShapeLine(line) ==
    Accepted(line, "sphere", 4) \/ Accepted(line, "background", 3) \/ Accepted(line, "end", 0)

\* the places in the input of the lines that append a shape, in file order
ShapeIndices(read) ==
    SelectSeq([i \in 1..Len(read) |-> i], LAMBDA i : ShapeLine(read[i]))

\* the leaves of a tree of unions, left to right
RECURSIVE Leaves(_)
Leaves(sdf) ==
    CASE sdf.kind = "Union" -> Leaves(sdf.a) \o Leaves(sdf.b)
      [] sdf.kind = "Empty" -> <<>>
      [] OTHER -> <<sdf>>

\* Union(...Union(Union(o1, o2), o3)..., on): no right child is a union
RECURSIVE LeftNested(_)
LeftNested(sdf) ==
    sdf.kind = "Union" => (sdf.b.kind # "Union" /\ LeftNested(sdf.a))

\* the leaf is the shape the line describes
LeafOf(line, leaf) ==
    /\ leaf.kind = "Mat"
    /\ CASE Command(line) = "sphere" ->
                leaf.sdf = TranslatedSDF(Sphere(Num(Arguments(line)[1])),
                                         Vec3(Num(Arguments(line)[2]), Num(Arguments(line)[3]),
                                              Num(Arguments(line)[4])))
         [] Command(line) = "background" -> leaf.sdf = NegationSDF(Sphere(BackgroundRadius))
         [] Command(line) = "end" -> leaf.sdf.kind = "PolyFace"

\* C12: the SDF of the parsed scene has one leaf per accepted sphere,
\* background and end line, in file order, nested to the left; one shape is
\* the SDF itself, no shape gives EmptySDF.
C12_ParseFoldsLeft ==
    parser.pc = "done" =>
        LET at == ShapeIndices(parser.read)
            leaves == Leaves(scene.sdf)
        IN  /\ Len(leaves) = Len(at)
            /\ \A k \in 1..Len(at) : LeafOf(parser.read[at[k]], leaves[k])
            /\ LeftNested(scene.sdf)
            /\ Len(at) = 1 => scene.sdf = leaves[1]
            /\ Len(at) = 0 => scene.sdf = EmptySDF

\* a sphere, a polygon and a background were folded, in that order
C12_Witness ==
    /\ parser.pc = "done" /\ scene.sdf.kind = "Union" /\ scene.sdf.a.kind = "Union"
    /\ scene.sdf.a.a.sdf.kind = "Translated"
    /\ scene.sdf.a.b.sdf.kind = "PolyFace"
    /\ scene.sdf.b.sdf.kind = "Negation"

\* the material a `surface` line describes:
\* surface Dr Dg Db Ar Ag Ab Sr Sg Sb PHONG KREFL
SurfaceMaterial(line) ==
    LET a == Arguments(line)
    IN  Material(Color(Num(a[4]), Num(a[5]), Num(a[6])),
                 Color(Num(a[1]), Num(a[2]), Num(a[3])),
                 Color(Num(a[7]), Num(a[8]), Num(a[9])),
                 Num(a[10]) \div One, Num(a[11]), One, VACUUM)

\* the material of the last surface line before line i, or the default one
RECURSIVE MaterialBefore(_, _)
MaterialBefore(read, i) ==
    IF i <= 1 THEN MaterialNew
    ELSE IF Accepted(read[i - 1], "surface", 11) THEN SurfaceMaterial(read[i - 1])
    ELSE MaterialBefore(read, i - 1)

\* C13: every sphere and every polygon appended carries the material of the
\* most recent surface line before its own line (the default material if
\* there is none), whatever surface lines follow; a background carries its
\* own material, and the current material is the one of the most recent
\* surface line whatever background lines were read.
C13_ShapesCarryCurrentMaterial ==
    LET at == ShapeIndices(parser.read)
    IN  /\ Len(parser.l.objects) = Len(at)
        /\ \A k \in 1..Len(at) :
            LET line == parser.read[at[k]]
            IN  IF Command(line) = "background"
                THEN parser.l.objects[k].mat =
                        Material(Color(Num(Arguments(line)[1]), Num(Arguments(line)[2]),
                                       Num(Arguments(line)[3])),
                                 black, black, 1, 0, One, VACUUM)
                ELSE parser.l.objects[k].mat = MaterialBefore(parser.read, at[k])
        /\ parser.l.material = MaterialBefore(parser.read, Len(parser.read) + 1)

\* a shape was appended under one surface line, a background and a second
\* surface line followed, and the current material is the second one
C13_Witness ==
    /\ Len(parser.l.objects) = 2
    /\ parser.l.objects[1].mat = SurfaceMaterial(Surface1)
    /\ parser.l.objects[2].sdf.kind = "Negation"
    /\ parser.l.material = SurfaceMaterial(Surface2)

KnownCommands ==
    { "fov", "light", "surface", "sphere", "background", "begin", "end", "vertex", "write" }

\* the number of arguments a command takes
Arity(command) ==
    CASE command = "fov" -> 1
      [] command = "light" -> 6
      [] command = "surface" -> 11
      [] command = "sphere" -> 4
      [] command = "background" -> 3
      [] command = "vertex" -> 3
      [] command = "write" -> 1
      [] OTHER -> 0

\* a known command with a wrong number of arguments, or with an argument that
\* is no number where a number is asked for
Malformed(line) ==
    /\ ~Skipped(line)
    /\ Command(line) \in KnownCommands
    /\ \/ Len(Arguments(line)) # Arity(Command(line))
       \/ Command(line) # "write" /\ ~AllParse(Arguments(line))

\* what holds of the claim: a line of a known command with the right number
\* of arguments, one of which is no number, aborts parsing
NumberFailureIsFatal ==
    \A i \in 1..Len(parser.read) :
        (/\ Malformed(parser.read[i])
         /\ Len(Arguments(parser.read[i])) = Arity(Command(parser.read[i])))
        => parser.pc = "panic" /\ i = Len(parser.read)

\* C14: a line with a known command word and malformed arguments (one that
\* is no number, or a wrong number of them) aborts parsing: it is the last
\* line read and the parser has panicked.
C14_MalformedIsFatal ==
    \A i \in 1..Len(parser.read) :
        Malformed(parser.read[i]) => parser.pc = "panic" /\ i = Len(parser.read)

\* blank, a comment, `write PATH`, or an unknown command word
Ignorable(line) ==
    IF Skipped(line) THEN TRUE
    ELSE \/ Command(line) = "write" /\ Len(Arguments(line)) = 1
         \/ Command(line) \notin KnownCommands

\* C15: reading a blank line, a line that begins with # after trimming, a
\* `write PATH` line or a line with an unknown command word leaves the
\* objects, the lights, the view, the current material and the accumulated
\* vertices as they were, and parsing goes on.
C15_IgnoredLinesChangeNothing ==
    [][(/\ Len(parser'.read) = Len(parser.read) + 1
        /\ Ignorable(parser'.read[Len(parser'.read)]))
       => parser'.l = parser.l /\ parser'.pc = parser.pc]_vars

\* a write line was read after a light, a surface line and a vertex, and all
\* of these are still there
C15_Witness ==
    /\ Len(parser.read) >= 4
    /\ ~Skipped(parser.read[Len(parser.read)])
    /\ Ignorable(parser.read[Len(parser.read)])
    /\ Command(parser.read[Len(parser.read)]) = "write"
    /\ parser.l.material # MaterialNew
    /\ parser.l.poly_vertices # <<>>
    /\ parser.l.lights # <<>>

\* the vertices of the vertex lines between the last begin line before line
\* i and line i, in order
RECURSIVE VerticesBefore(_, _)
VerticesBefore(read, i) ==
    IF i <= 1 THEN <<>>
    ELSE IF Accepted(read[i - 1], "begin", 0) THEN <<>>
    ELSE IF Accepted(read[i - 1], "vertex", 3)
         THEN Append(VerticesBefore(read, i - 1),
                     Vec3(Num(Arguments(read[i - 1])[1]), Num(Arguments(read[i - 1])[2]),
                          Num(Arguments(read[i - 1])[3])))
    ELSE VerticesBefore(read, i - 1)

\* C16: the PolyFace an end line appends has the vertices of the vertex lines
\* read since the most recent begin line (since the start of the input if
\* there is none), in order, and the accumulator holds them still: an end
\* line does not empty it.
C16_PolygonHasVerticesSinceBegin ==
    LET at == ShapeIndices(parser.read)
    IN  /\ Len(parser.l.objects) = Len(at)
        /\ \A k \in 1..Len(at) :
            Command(parser.read[at[k]]) = "end" =>
                parser.l.objects[k].sdf.vertices = VerticesBefore(parser.read, at[k])
        /\ parser.l.poly_vertices = VerticesBefore(parser.read, Len(parser.read) + 1)

\* two end lines with no begin between them appended the same two vertices
C16_Witness ==
    /\ Len(parser.l.objects) = 2
    /\ parser.l.objects[1].sdf.kind = "PolyFace"
    /\ parser.l.objects[2].sdf.kind = "PolyFace"
    /\ Len(parser.l.objects[1].sdf.vertices) = 2
    /\ parser.l.objects[1].sdf.vertices[1] # parser.l.objects[1].sdf.vertices[2]
    /\ parser.l.objects[2].sdf.vertices = parser.l.objects[1].sdf.vertices

-----------------------------------------------------------------------------
(* sdf.rs: the combinators, applied to a few shapes and evaluated at a few *)
(* points                                                                  *)

\* a square in the plane z = 2 whose stored normal is -z, and the same with
\* the other winding, whose stored normal is +z
Square ==
    PolyFace(<<Vec3(0, 0, 20000), Vec3(20000, 0, 20000),
               Vec3(20000, 20000, 20000), Vec3(0, 20000, 20000)>>)

SquareReversed ==
    PolyFace(<<Vec3(0, 0, 20000), Vec3(0, 20000, 20000),
               Vec3(20000, 20000, 20000), Vec3(20000, 0, 20000)>>)

\* the shapes the combinators are applied to
ProbeShapes ==
    { MatSDF(Sphere(One), Matt),
      MatSDF(TranslatedSDF(Sphere(One), Vec3(2 * One, 0, 0)), Mirror),
      Sphere(Half),
      Square,
      MatSDF(Square, Glossy),
      MatSDF(SquareReversed, Glossy) }

\* the points of evaluation: where the two unit spheres touch, the origin, a
\* point off the axes, and points of the plane z = 2 and of the two planes a
\* tenth before and behind it, over the middle of the squares
ProbePoints ==
    { Vec3(One, 0, 0), zero, Vec3(-One, One, 30000),
      Vec3(One, One, 19000), Vec3(One, One, 20000), Vec3(One, One, 21000) }

\* bound on the number of combinators applied one on another
MaxOps == 3

ProbeInit ==
    /\ \E a \in ProbeShapes, b \in ProbeShapes, p \in ProbePoints :
        probe = [pc |-> "build", a |-> a, b |-> b, p |-> p,
                 built |-> <<a>>, ops |-> <<>>, out |-> None]
    /\ scene = None /\ parser = None
    /\ mq = None /\ image = <<1, 1>> /\ pixel = <<0, 0>>
    /\ stack = <<>> /\ ret = None /\ rng = <<>> /\ draws = <<>> /\ calls = <<>>
    /\ last = None /\ hex = None /\ viewport = None

probeVars == <<scene, parser, mq, image, pixel, stack, ret, rng, draws, calls, last,
               hex, viewport>>

\* the SDF built so far
Built == probe.built[Len(probe.built)]

\* one more combinator is applied to the SDF built so far
Apply(op, sdf) ==
    /\ Len(probe.ops) < MaxOps
    /\ probe' = [probe EXCEPT !.built = Append(@, sdf), !.ops = Append(@, op)]
    /\ UNCHANGED probeVars

\* SDF::union, SDF::intersection, SDF::difference with the second shape
ProbeUnion == probe.pc = "build" /\ probe.ops = <<>> /\ Apply("union", UnionSDF(Built, probe.b))

ProbeIntersection ==
    probe.pc = "build" /\ probe.ops = <<>> /\ Apply("intersection", IntersectionSDF(Built, probe.b))

ProbeDifference == probe.pc = "build" /\ probe.ops = <<>> /\ Apply("difference", DifferenceSDF(Built, probe.b))

\* a.intersection(b.negate())
ProbeIntersectNegated ==
    /\ probe.pc = "build" /\ probe.ops = <<>>
    /\ Apply("intersect_negated", IntersectionSDF(Built, NegationSDF(probe.b)))

ProbeNegate == probe.pc = "build" /\ Apply("negate", NegationSDF(Built))

ProbeNegatedRef == probe.pc = "build" /\ Apply("negated_ref", NegatedRefSDF(Built))

ProbeShaded == probe.pc = "build" /\ Apply("shaded", MatSDF(Built, Glass))

\* distance, material and normal of the SDF built, at the point
ProbeEvaluate ==
    /\ probe.pc = "build"
    /\ probe' = [probe EXCEPT !.pc = "done",
                              !.out = [distance |-> Distance(Built, probe.p),
                                       material |-> MaterialAt(Built, probe.p),
                                       normal |-> Normal(Built, probe.p)]]
    /\ UNCHANGED probeVars

ProbeNext ==
    \/ ProbeUnion
    \/ ProbeIntersection
    \/ ProbeDifference
    \/ ProbeIntersectNegated
    \/ ProbeNegate
    \/ ProbeNegatedRef
    \/ ProbeShaded
    \/ ProbeEvaluate

ProbeSpec == ProbeInit /\ [][ProbeNext]_vars

-----------------------------------------------------------------------------
(* Claims about the combinators, checked under ProbeSpec                   *)

\* the k-th last combinator applied
OpFromEnd(k) == probe.ops[Len(probe.ops) + 1 - k]

\* the SDF as it was before the last k combinators
BuiltBefore(k) == probe.built[Len(probe.built) - k]

Negations == { "negate", "negated_ref" }

\* C17: the distance of an SDF negated twice, by NegationSDF or by
\* NegatedRefSDF in any combination, is the distance of the SDF itself.
C17_NegationInvolution ==
    (/\ probe.pc = "done" /\ Len(probe.ops) >= 2
     /\ OpFromEnd(1) \in Negations /\ OpFromEnd(2) \in Negations)
    => probe.out.distance = Distance(BuiltBefore(2), probe.p)

\* a union was negated by the one wrapper, then by the other, and evaluated
\* at a point outside of it
C17_Witness ==
    /\ probe.pc = "done" /\ probe.ops = <<"union", "negated_ref", "negate">>
    /\ probe.out.distance > 0

\* C18: the distance of DifferenceSDF(A, B) is the distance of
\* IntersectionSDF(A, NegationSDF(B)): the larger of dA(p) and -dB(p).
C18_DeMorgan ==
    (/\ probe.pc = "done" /\ Len(probe.ops) = 1
     /\ probe.ops[1] \in {"difference", "intersect_negated"})
    => /\ probe.out.distance = Max(Distance(probe.a, probe.p), Neg(Distance(probe.b, probe.p)))
       /\ probe.out.distance =
            Distance(IntersectionSDF(probe.a, NegationSDF(probe.b)), probe.p)
       /\ probe.out.distance = Distance(DifferenceSDF(probe.a, probe.b), probe.p)

\* a difference was evaluated at a point inside both shapes, where the
\* distance is that of the negated second shape
C18_Witness ==
    /\ probe.pc = "done" /\ probe.ops = <<"difference">>
    /\ Distance(probe.a, probe.p) < 0 /\ Distance(probe.b, probe.p) < 0
    /\ probe.out.distance > 0
    /\ probe.out.distance # Max(Distance(probe.a, probe.p), Distance(probe.b, probe.p))

\* C19: the distance of a union is the smaller, of an intersection the larger
\* of the distances of its children; the material of both is the material of
\* a if a is strictly nearer and of b otherwise; the material of a difference
\* is the material of a.
C19_MaterialOfNearerChild ==
    (probe.pc = "done" /\ Len(probe.ops) = 1) =>
        LET da == Distance(probe.a, probe.p)
            db == Distance(probe.b, probe.p)
            nearer == IF da < db THEN MaterialAt(probe.a, probe.p)
                      ELSE MaterialAt(probe.b, probe.p)
        IN  /\ probe.ops[1] = "union" =>
                probe.out.distance = Min(da, db) /\ probe.out.material = nearer
            /\ probe.ops[1] = "intersection" =>
                probe.out.distance = Max(da, db) /\ probe.out.material = nearer
            /\ probe.ops[1] = "difference" =>
                probe.out.material = MaterialAt(probe.a, probe.p)

\* a union was evaluated where its children, of different materials, are at
\* the same distance, and has the material of b
C19_Witness ==
    /\ probe.pc = "done" /\ probe.ops = <<"union">>
    /\ Distance(probe.a, probe.p) = Distance(probe.b, probe.p)
    /\ MaterialAt(probe.a, probe.p) # MaterialAt(probe.b, probe.p)
    /\ probe.out.material = MaterialAt(probe.b, probe.p)
    /\ probe.out.material.is_some

\* the point is on the surface of the shape
AtHit(sdf, p) == Abs(Distance(sdf, p)) <= Epsilon(sdf)

\* C20: the normal of a shaded SDF is the normal of the SDF it wraps; the
\* normal of a union is the normal of a if a is strictly nearer and of b
\* otherwise; a shaded PolyFace in a union has its stored face normal at a
\* hit of the polygon.
C20_NormalsInherited ==
    probe.pc = "done" =>
        /\ (Len(probe.ops) >= 1 /\ OpFromEnd(1) = "shaded") =>
                probe.out.normal = Normal(BuiltBefore(1), probe.p)
        /\ probe.ops = <<"union">> =>
                probe.out.normal =
                    IF Distance(probe.a, probe.p) < Distance(probe.b, probe.p)
                    THEN Normal(probe.a, probe.p) ELSE Normal(probe.b, probe.p)
        /\ (/\ probe.ops = <<"union">>
            /\ probe.a.kind = "Mat" /\ probe.a.sdf.kind = "PolyFace"
            /\ Distance(probe.a, probe.p) < Distance(probe.b, probe.p)
            /\ AtHit(probe.a, probe.p))
           => probe.out.normal = probe.a.sdf.normal

\* C21: the material of a negated SDF is the material of the SDF it wraps,
\* so that a shaded shape that is negated still has its material.
C21_NegationInheritsMaterial ==
    (probe.pc = "done" /\ Len(probe.ops) >= 1 /\ OpFromEnd(1) = "negate")
    => probe.out.material = MaterialAt(BuiltBefore(1), probe.p)


\* a frame of get_color that has shaded a hit of a material of reflectivity 0
\* and opacity 1 in a scene without lights
Unlit(f) ==
    /\ f.pc = "done" /\ scene.lights = <<>>
    /\ f.hit.val.material.reflectivity = 0
    /\ f.hit.val.material.opacity = One

\* C23: in a scene without lights, the colour of a hit on a material of
\* reflectivity 0 and opacity 1 is the material's ambient colour, whatever the
\* budget of the raycast; so every pixel of a scene made of a background line
\* alone that hits is of the background's colour.
C23_UnlitIsAmbient ==
    /\ \A i \in 1..Len(stack) :
            Unlit(stack[i]) =>
                raycast_result(stack[i].color) = Some(stack[i].hit.val.material.ambient)
    /\ \A i \in 1..Len(calls) :
            (~calls[i].open /\ calls[i].before = BackgroundOnly /\ calls[i].result.is_some)
                => calls[i].result = Some(Color(2000, 2000, One))

\* the background was hit by the reflection ray of a mirror, with budget 9
C23_Witness ==
    /\ stack # <<>> /\ Unlit(Top)
    /\ Top.via = "reflect" /\ Top.refl_count = InitialBudget - 1
    /\ Top.color = Color(2000, 2000, One)

\* a pixel of the scene that is a background alone was coloured
BackgroundPixelColoured ==
    /\ scene = BackgroundOnly /\ calls # <<>>
    /\ ~calls[1].open /\ calls[1].result = Some(Color(2000, 2000, One))
-----------------------------------------------------------------------------
(* mat.rs: Color::from_irgb, from_hexstring, as_hexstring.  The channels are *)
(* f64 here: a sign, the 53 bits of the significand (the first one is 1;     *)
(* none for zero) and the exponent of the first bit, with the rounding of    *)
(* IEEE 754 (to nearest, ties to even) after every operation                 *)

\* the bits of the significand of an f64
Mantissa == 53

F64(neg, m, e) == [neg |-> neg, m |-> m, e |-> e]

F64Zero == F64(FALSE, <<>>, 0)

\* the binary digits of n, the first one 1; none for 0
RECURSIVE Bits(_)
Bits(n) == IF n = 0 THEN <<>> ELSE Append(Bits(n \div 2), n % 2)

RECURSIVE ToNat(_)
ToNat(bits) ==
    IF bits = <<>> THEN 0
    ELSE 2 * ToNat(SubSeq(bits, 1, Len(bits) - 1)) + bits[Len(bits)]

Zeros(k) == [i \in 1..k |-> 0]

\* bits + 1, as many digits; all zeros when every digit was 1
Increment(bits) ==
    IF \A i \in 1..Len(bits) : bits[i] = 1 THEN Zeros(Len(bits))
    ELSE LET last0 == CHOOSE j \in 1..Len(bits) :
                        bits[j] = 0 /\ \A i \in (j + 1)..Len(bits) : bits[i] = 1
         IN  [i \in 1..Len(bits) |->
                IF i < last0 THEN bits[i] ELSE IF i = last0 THEN 1 ELSE 0]

RoundTowardZero(neg, bits, rest, e) ==
    F64(neg, SubSeq(bits \o Zeros(Mantissa), 1, Mantissa), e)

\* the f64 nearest to the number whose digits are bits (the first one 1, of
\* exponent e) followed by something that is not zero iff rest; ties to even
RoundToNearest(neg, bits, rest, e) ==
    LET all == bits \o Zeros(Mantissa + 1)
        keep == SubSeq(all, 1, Mantissa)
        guard == all[Mantissa + 1]
        sticky == rest \/ \E i \in Mantissa + 2..Len(bits) : bits[i] = 1
        away == guard = 1 /\ (sticky \/ keep[Mantissa] = 1)
    IN  IF ~away THEN F64(neg, keep, e)
        ELSE IF \A i \in 1..Mantissa : keep[i] = 1
             THEN F64(neg, <<1>> \o Zeros(Mantissa - 1), e + 1)
             ELSE F64(neg, Increment(keep), e)

\* `n as f64` of a usize below 2^53
FromUsize(n) ==
    IF n = 0 THEN F64Zero
    ELSE F64(FALSE, Bits(n) \o Zeros(Mantissa - Len(Bits(n))), Len(Bits(n)) - 1)

RECURSIVE Pow2(_)
Pow2(k) == IF k = 0 THEN 1 ELSE 2 * Pow2(k - 1)

\* the digits the model multiplies or divides at a time
Limb == 16

\* n in k binary digits
Digits(n, k) == Zeros(k - Len(Bits(n))) \o Bits(n)

\* the first k digits after the binary point of rem / d, for rem < d
RECURSIVE DivBits(_, _, _)
DivBits(rem, d, k) ==
    IF k = 0 THEN <<>>
    ELSE Digits((rem * Pow2(Min(k, Limb))) \div d, Min(k, Limb))
         \o DivBits((rem * Pow2(Min(k, Limb))) % d, d, k - Min(k, Limb))

\* what is left of rem / d after those k digits
RECURSIVE DivRest(_, _, _)
DivRest(rem, d, k) ==
    IF k = 0 THEN rem
    ELSE DivRest((rem * Pow2(Min(k, Limb))) % d, d, k - Min(k, Limb))

\* the least k with n < d * 2^k
RECURSIVE Scale(_, _)
Scale(n, d) == IF n < d THEN 0 ELSE 1 + Scale(n, 2 * d)

\* the least j with 2 n 2^j >= d
RECURSIVE ScaleUp(_, _)
ScaleUp(n, d) == IF 2 * n >= d THEN 0 ELSE 1 + ScaleUp(2 * n, d)

\* (n as f64) / (d as f64) of two whole numbers, d > 0: both are scaled by
\* powers of 2 to a quotient in [1/2, 1), whose first digit after the point
\* is 1
FDiv(n, d) ==
    IF n = 0 THEN F64Zero
    ELSE IF n >= d
    THEN RoundToNearest(FALSE, DivBits(n, d * Pow2(Scale(n, d)), Mantissa + 1),
                        DivRest(n, d * Pow2(Scale(n, d)), Mantissa + 1) # 0,
                        Scale(n, d) - 1)
    ELSE RoundToNearest(FALSE, DivBits(n * Pow2(ScaleUp(n, d)), d, Mantissa + 1),
                        DivRest(n * Pow2(ScaleUp(n, d)), d, Mantissa + 1) # 0,
                        -ScaleUp(n, d) - 1)

\* the last Limb digits of bits, or all of them
LowLimb(bits) ==
    SubSeq(bits, IF Len(bits) > Limb THEN Len(bits) - Limb + 1 ELSE 1, Len(bits))

\* the digits before them
HighLimbs(bits) == SubSeq(bits, 1, Len(bits) - Len(LowLimb(bits)))

\* the digits of bits * c + carry, as many as bits has; c a whole number
RECURSIVE MulLow(_, _, _)
MulLow(bits, c, carry) ==
    IF bits = <<>> THEN <<>>
    ELSE MulLow(HighLimbs(bits), c,
                (ToNat(LowLimb(bits)) * c + carry) \div Pow2(Len(LowLimb(bits))))
         \o Digits((ToNat(LowLimb(bits)) * c + carry) % Pow2(Len(LowLimb(bits))),
                   Len(LowLimb(bits)))

\* what bits * c + carry has above them
RECURSIVE MulHigh(_, _, _)
MulHigh(bits, c, carry) ==
    IF bits = <<>> THEN carry
    ELSE MulHigh(HighLimbs(bits), c,
                 (ToNat(LowLimb(bits)) * c + carry) \div Pow2(Len(LowLimb(bits))))

\* x * (c as f64), c a whole number above 0
FMul(x, c) ==
    IF x.m = <<>> THEN x
    ELSE LET high == Bits(MulHigh(x.m, c, 0))
         IN  RoundToNearest(x.neg, high \o MulLow(x.m, c, 0), FALSE, x.e + Len(high))

\* f64::max(self, 0.)
FMax0(x) == IF x.neg THEN F64Zero ELSE x

\* f64::min(self, 1.)
FMin1(x) == IF ~x.neg /\ x.m # <<>> /\ x.e >= 0 THEN FromUsize(1) ELSE x

\* `x as usize`: towards zero, and 0 for what is below 0
AsUsize(x) ==
    IF x.neg \/ x.m = <<>> \/ x.e < 0 THEN 0 ELSE ToNat(SubSeq(x.m, 1, x.e + 1))

FColor(r, g, b) == [r |-> r, g |-> g, b |-> b]

from_irgb(r, g, b) == FColor(FDiv(r, 255), FDiv(g, 255), FDiv(b, 255))

LowerDigits == <<"0", "1", "2", "3", "4", "5", "6", "7", "8", "9",
                 "a", "b", "c", "d", "e", "f">>

UpperDigits == <<"0", "1", "2", "3", "4", "5", "6", "7", "8", "9",
                 "A", "B", "C", "D", "E", "F">>

IsDigit(c) == \E i \in 1..16 : c \in {LowerDigits[i], UpperDigits[i]}

DigitValue(c) == (CHOOSE i \in 1..16 : c \in {LowerDigits[i], UpperDigits[i]}) - 1

\* usize::from_str_radix(s, 16) of a string of two characters: hexadecimal
\* digits of either case, or a + and one digit; an Err otherwise
from_str_radix(s) ==
    IF IsDigit(s[1]) /\ IsDigit(s[2]) THEN Some(16 * DigitValue(s[1]) + DigitValue(s[2]))
    ELSE IF s[1] = "+" /\ IsDigit(s[2]) THEN Some(DigitValue(s[2]))
    ELSE None

\* lines 46-50: the string without its leading #
StripHash(color) ==
    IF color # <<>> /\ color[1] = "#" THEN SubSeq(color, 2, Len(color)) ELSE color

\* the assert_eq of line 52 and the unwraps of lines 54-56 pass
HexstringOk(color) ==
    /\ Len(StripHash(color)) = 6
    /\ \A i \in {1, 3, 5} : from_str_radix(SubSeq(StripHash(color), i, i + 1)).is_some

\* Color::from_hexstring of a string that passes them
from_hexstring(color) ==
    LET c == StripHash(color)
    IN  from_irgb(from_str_radix(SubSeq(c, 1, 2)).val, from_str_radix(SubSeq(c, 3, 4)).val,
                  from_str_radix(SubSeq(c, 5, 6)).val)

ConvertBy256(f) == AsUsize(FMul(FMin1(FMax0(f)), 256))

convert_to_255(f) == AsUsize(FMul(FMin1(FMax0(f)), 255))

\* the digits of n in base 16, lower case; none for 0
RECURSIVE LowerHex(_)
LowerHex(n) == IF n = 0 THEN <<>> ELSE Append(LowerHex(n \div 16), LowerDigits[(n % 16) + 1])

\* format!("{:02x}", n): at least one digit, filled with 0 to a width of 2
Format02x(n) ==
    LET digits == IF n = 0 THEN <<"0">> ELSE LowerHex(n)
    IN  IF Len(digits) < 2 THEN <<"0">> \o digits ELSE digits

as_hexstring(self) ==
    <<"#">> \o Format02x(convert_to_255(self.r)) \o Format02x(convert_to_255(self.g))
            \o Format02x(convert_to_255(self.b))

-----------------------------------------------------------------------------
(* Colours made from whole channels, from strings and from f64 channels,    *)
(* and written as hex strings                                               *)

TwoDigits(n) == <<LowerDigits[(n \div 16) + 1], LowerDigits[(n % 16) + 1]>>

HexString(r, g, b) == <<"#">> \o TwoDigits(r) \o TwoDigits(g) \o TwoDigits(b)

FNeg(x) == [x EXCEPT !.neg = TRUE]

\* the f64 just below 1
BelowOne == F64(FALSE, [i \in 1..Mantissa |-> 1], -1)

\* the f64 just above 1
AboveOne == F64(FALSE, <<1>> \o Zeros(Mantissa - 2) \o <<1>>, 0)

HexInputs ==
    {[kind |-> "irgb", r |-> r, g |-> 255 - r, b |-> (7 * r) % 256] : r \in 0..255}
    \cup {[kind |-> "irgb", r |-> 256, g |-> 300, b |-> 1020]}
    \cup {[kind |-> "string", s |-> HexString(r, (r + 128) % 256, (11 * r) % 256)] :
            r \in 0..255}
    \cup {[kind |-> "string", s |-> s] :
            s \in { <<"#", "3", "3", "3", "3", "f", "f">>,
                    <<"3", "3", "3", "3", "f", "f">>,
                    <<"#", "F", "F", "A", "a", "0", "0">>,
                    <<"#", "+", "f", "+", "0", "1", "0">>,
                    <<"#", "f", "f", "f">>,
                    <<"#", "g", "g", "0", "0", "0", "0">>,
                    <<"#", "-", "1", "0", "0", "0", "0">>,
                    <<>> }}
    \cup {[kind |-> "new", color |-> c] :
            c \in { FColor(FNeg(FDiv(1, 2)), FDiv(3, 2), FromUsize(2)),
                    FColor(BelowOne, AboveOne, FNeg(FDiv(1, 1024))),
                    FColor(FDiv(1, 3), FNeg(FromUsize(7)), FromUsize(1000000)) }}

HexInit ==
    /\ \E input \in HexInputs :
        hex = [pc |-> "start", input |-> input, color |-> None, out |-> None]
    /\ scene = None /\ parser = None /\ probe = None /\ viewport = None
    /\ mq = None /\ image = <<1, 1>> /\ pixel = <<0, 0>>
    /\ stack = <<>> /\ ret = None /\ rng = <<>> /\ draws = <<>> /\ calls = <<>>
    /\ last = None

hexVars == <<scene, parser, probe, viewport, mq, image, pixel, stack, ret, rng, draws,
             calls, last>>

HexFromIrgb ==
    /\ hex.pc = "start" /\ hex.input.kind = "irgb"
    /\ hex' = [hex EXCEPT !.pc = "color",
                          !.color = from_irgb(hex.input.r, hex.input.g, hex.input.b)]
    /\ UNCHANGED hexVars

HexFromHexstring ==
    /\ hex.pc = "start" /\ hex.input.kind = "string"
    /\ HexstringOk(hex.input.s)
    /\ hex' = [hex EXCEPT !.pc = "color", !.color = from_hexstring(hex.input.s)]
    /\ UNCHANGED hexVars

\* the assert_eq of line 52 or an unwrap of lines 54-56 panics
HexFromHexstringPanic ==
    /\ hex.pc = "start" /\ hex.input.kind = "string"
    /\ ~HexstringOk(hex.input.s)
    /\ hex' = [hex EXCEPT !.pc = "panic"]
    /\ UNCHANGED hexVars

\* Color::new
HexColorNew ==
    /\ hex.pc = "start" /\ hex.input.kind = "new"
    /\ hex' = [hex EXCEPT !.pc = "color", !.color = hex.input.color]
    /\ UNCHANGED hexVars

HexAsHexstring ==
    /\ hex.pc = "color"
    /\ hex' = [hex EXCEPT !.pc = "done", !.out = as_hexstring(hex.color)]
    /\ UNCHANGED hexVars

HexNext ==
    \/ HexFromIrgb \/ HexFromHexstring \/ HexFromHexstringPanic \/ HexColorNew
    \/ HexAsHexstring

HexSpec == HexInit /\ [][HexNext]_vars

\* a # and six lower-case hexadecimal digits
WellFormed(s) ==
    /\ Len(s) = 7 /\ s[1] = "#"
    /\ \A i \in 2..7 : \E d \in 1..16 : s[i] = LowerDigits[d]

BelowZero(x) == x.neg /\ x.m # <<>>

AboveOneF(x) == ~x.neg /\ x.m # <<>> /\ x.e >= 0 /\ x # FromUsize(1)

\* what the hex string out says of the channel of c that is f
Clamped(f, digits) ==
    /\ BelowZero(f) => digits = <<"0", "0">>
    /\ AboveOneF(f) => digits = <<"f", "f">>

\* C24: the hex string of the colour made from whole channels r, g, b up to
\* 255 is # and the two lower-case hexadecimal digits of each of r, g, b; so
\* the hex string of the colour read from a well-formed string is that string;
\* a channel below 0 is written 00 and a channel above 1 is written ff.
C24_HexRoundTrip ==
    hex.pc = "done" =>
        /\ (hex.input.kind = "irgb" /\ hex.input.r <= 255 /\ hex.input.g <= 255
                                    /\ hex.input.b <= 255)
            => hex.out = HexString(hex.input.r, hex.input.g, hex.input.b)
        /\ (hex.input.kind = "string" /\ WellFormed(hex.input.s))
            => hex.out = hex.input.s
        /\ Clamped(hex.color.r, SubSeq(hex.out, 2, Len(hex.out) - 4))
        /\ Clamped(hex.color.g, SubSeq(hex.out, Len(hex.out) - 3, Len(hex.out) - 2))
        /\ Clamped(hex.color.b, SubSeq(hex.out, Len(hex.out) - 1, Len(hex.out)))

\* a string whose channels are not dyadic fractions of 255 came back as it was
C24_Witness ==
    /\ hex.pc = "done" /\ hex.input.kind = "string"
    /\ hex.input.s = <<"#", "3", "3", "3", "3", "f", "f">>
    /\ hex.out = hex.input.s
    /\ hex.color.r = F64(FALSE, <<1, 1, 0, 0, 1, 1, 0, 0, 1, 1, 0, 0, 1, 1, 0, 0, 1, 1,
                                  0, 0, 1, 1, 0, 0, 1, 1, 0, 0, 1, 1, 0, 0, 1, 1, 0, 0,
                                  1, 1, 0, 0, 1, 1, 0, 0, 1, 1, 0, 0, 1, 1, 0, 1, 0>>, -3)

-----------------------------------------------------------------------------
(* A claim about raycast_pixel's local point, checked under Spec           *)

\* the call was made for a pixel of an image that has pixels
InImage(c) ==
    /\ c.image[1] >= 1 /\ c.image[2] >= 1
    /\ c.pixel[1] < c.image[1] /\ c.pixel[2] < c.image[2]

\* the local points of the raycast_pixel calls so far are (u, v, 0) with
\* u W = (2 x - W) in [-1, 1) and v H = (H - 2 y) in (-1, 1], u grows with x
\* and v falls as y grows, and the pixel (W / 2, H / 2), the halves taken as
\* whole numbers, of an image with centred(W, H) has the local point (0, 0, 0)
PixelToView(centred(_, _)) ==
    \A i \in 1..Len(calls) :
        InImage(calls[i]) =>
            /\ calls[i].local[3] = 0
            /\ calls[i].local[1] =
                    RoundDiv((2 * calls[i].pixel[1] - calls[i].image[1]) * One, calls[i].image[1])
            /\ calls[i].local[2] =
                    RoundDiv((calls[i].image[2] - 2 * calls[i].pixel[2]) * One, calls[i].image[2])
            /\ -One <= calls[i].local[1] /\ calls[i].local[1] < One
            /\ -One < calls[i].local[2] /\ calls[i].local[2] <= One
            /\ \A j \in 1..Len(calls) :
                (InImage(calls[j]) /\ calls[j].image = calls[i].image) =>
                    /\ calls[j].pixel[1] > calls[i].pixel[1]
                            => calls[j].local[1] > calls[i].local[1]
                    /\ calls[j].pixel[2] > calls[i].pixel[2]
                            => calls[j].local[2] < calls[i].local[2]
            /\ (/\ centred(calls[i].image[1], calls[i].image[2])
                /\ calls[i].pixel = <<calls[i].image[1] \div 2, calls[i].image[2] \div 2>>)
                    => calls[i].local = zero

AnySize(w, h) == TRUE

EvenSize(w, h) == w % 2 = 0 /\ h % 2 = 0

\* C25 as claimed: for every image size W, H >= 1 and every pixel of it the
\* local point is (u, v, 0), u = (x - W/2)/(W/2) in [-1, 1) growing with x and
\* v = (H/2 - y)/(H/2) in (-1, 1] falling with y, and the pixel (W/2, H/2) has
\* the local point (0, 0, 0).
C25_PixelToView == PixelToView(AnySize)

\* C25 as amended: the same, the pixel (W/2, H/2) having the local point
\* (0, 0, 0) when W and H are even.
C25_PixelToViewEvenCentre == PixelToView(EvenSize)

\* in an image of 4 by 2 pixels the pixel (2, 1) was given the local point
\* (0, 0, 0) and then the pixel to its right the local point (0.5, 0, 0)
C25_Witness ==
    /\ Len(calls) = 2 /\ calls[1].image = <<4, 2>>
    /\ calls[1].pixel = <<2, 1>> /\ calls[1].local = zero
    /\ calls[2].pixel = <<3, 1>> /\ calls[2].local = Vec3(Half, 0, 0)

-----------------------------------------------------------------------------
(* A claim about the range of the shadow walk, checked under Spec          *)

\* C26: at every iteration of the shadow walk the shadow ray's direction is
\* the vector from its origin to the light, so that the range it is traced
\* over, the length of its direction, is the distance from its origin to the
\* light, also after a back-face hit has moved the origin on.
C26_ShadowRangeIsLightDistance ==
    \A i \in 1..Len(stack) :
        (stack[i].pc = "shadow" /\ shadow_walk_goes_on(stack[i].iter, stack[i].refl_count))
            => /\ stack[i].shadow_ray.direction =
                    VSub(scene.lights[stack[i].li].position, stack[i].shadow_ray.origin)
               /\ Norm(stack[i].shadow_ray.direction) =
                    Dist(stack[i].shadow_ray.origin, scene.lights[stack[i].li].position)

\* C26, what follows: a front-facing hit that ends the walk for a light is no
\* farther from the point being shaded than the light is.
C26_NoOccluderBeyondLight ==
    \A i \in 1..Len(stack) :
        (stack[i].pc = "lit" /\ stack[i].shadow_hit.is_some)
            => Dist2(stack[i].adjusted_hit, stack[i].shadow_hit.val)
                <= Dist2(stack[i].adjusted_hit, scene.lights[stack[i].li].position)

-----------------------------------------------------------------------------
(* viewport.rs: Viewport::new, Viewport::update, render_next_point         *)

\* the number of pixels a canvas has for each point one update renders
\* (line 61)
PointsDivisor == 64

\* what update adds to the seed (line 64)
SeedStep == 29

\* seed is a u64 that is written and never read; the model keeps its low bits
SeedBits == 4

\* bound on the frames the model counts
MaxFrames == 2

\* the canvas with the pixels filled since the frame began (fills) and those
\* of the last whole frame (shown); fill_rect is called at (x, y) whether the
\* ray has a colour (line 98) or not (line 105)
ViewportNew(canvas) ==
    [canvas |-> canvas, fills |-> <<>>, shown |-> <<>>,
     index |-> 0, seed |-> 0, frame |-> 0]

\* mutant: the pixels are visited column by column
RenderNextPointByColumn(self) ==
    LET width == self.canvas[1]
        height == self.canvas[2]
        x == self.index \div height
        y == self.index % height
        index == (self.index + 1) % (width * height)
        fills == Append(self.fills, <<x, y>>)
    IN  IF index = 0
        THEN [self EXCEPT !.index = index, !.frame = self.frame + 1,
                          !.shown = fills, !.fills = <<>>]
        ELSE [self EXCEPT !.index = index, !.fills = fills]

render_next_point(self) ==
    LET width == self.canvas[1]
        height == self.canvas[2]
        x == self.index % width
        y == self.index \div width
        index == (self.index + 1) % (width * height)
        fills == Append(self.fills, <<x, y>>)
    IN  IF index = 0
        THEN [self EXCEPT !.index = index, !.frame = self.frame + 1,
                          !.shown = fills, !.fills = <<>>]
        ELSE [self EXCEPT !.index = index, !.fills = fills]

\* the for loop of lines 61-63
RECURSIVE RenderPoints(_, _)
RenderPoints(self, n) ==
    IF n = 0 THEN self ELSE RenderPoints(render_next_point(self), n - 1)

update(self) ==
    [RenderPoints(self, (self.canvas[1] * self.canvas[2]) \div PointsDivisor)
        EXCEPT !.seed = (@ + SeedStep) % (2 ^ SeedBits)]

-----------------------------------------------------------------------------
(* ViewportSpec: calls of render_next_point and of update on one canvas;   *)
(* ViewportUpdateSpec: the calls a page makes, update again and again      *)

\* width and height of the canvases: fewer pixels than PointsDivisor, as
\* many, and more
Canvases == { <<1, 1>>, <<3, 2>>, <<7, 9>>, <<8, 8>>, <<16, 9>> }

ViewportInit ==
    /\ \E canvas \in Canvases : viewport = ViewportNew(canvas)
    /\ scene = None /\ parser = None /\ probe = None /\ hex = None
    /\ mq = None /\ image = <<1, 1>> /\ pixel = <<0, 0>>
    /\ stack = <<>> /\ ret = None /\ rng = <<>> /\ draws = <<>> /\ calls = <<>>
    /\ last = None

viewportVars == <<scene, parser, probe, hex, mq, image, pixel, stack, ret, rng, draws,
                  calls, last>>

ViewportRenderNextPoint ==
    /\ viewport.frame < MaxFrames
    /\ viewport' = render_next_point(viewport)
    /\ UNCHANGED viewportVars

ViewportUpdate ==
    /\ viewport.frame < MaxFrames
    /\ viewport' = update(viewport)
    /\ UNCHANGED viewportVars

ViewportNext == ViewportRenderNextPoint \/ ViewportUpdate

ViewportSpec == ViewportInit /\ [][ViewportNext]_vars

\* the page calls update on every animation frame, for as long as it is shown
ViewportUpdateSpec == ViewportInit /\ [][ViewportUpdate]_vars /\ WF_vars(ViewportUpdate)

CanvasPixels(v) == v.canvas[1] * v.canvas[2]

\* the first n pixels of the canvas, row by row
RowMajor(v, n) == [i \in 1..n |-> <<(i - 1) % v.canvas[1], (i - 1) \div v.canvas[1]>>]

\* the step made index wrap back to 0: a single call (the seed is as it was)
\* ends at index 0, an update ends at a smaller index than it began
Wrapped ==
    IF viewport'.seed = viewport.seed
    THEN viewport'.index = 0
    ELSE viewport'.index < viewport.index

\* C29: on a canvas of W x H pixels, after any calls of render_next_point,
\* 0 <= index < W*H; the pixels filled since the last increment of frame are
\* the first index pixels in row-major order, the pixels filled between two
\* increments of frame are all the pixels of the canvas, each once, in
\* row-major order; and frame grows by one exactly in the steps where index
\* wraps back to 0.
C29_RowMajorOncePerFrame ==
    /\ [](/\ viewport.index >= 0 /\ viewport.index < CanvasPixels(viewport)
          /\ viewport.fills = RowMajor(viewport, viewport.index)
          /\ viewport.shown = IF viewport.frame = 0 THEN <<>>
                               ELSE RowMajor(viewport, CanvasPixels(viewport))
          /\ \A x \in 0..(viewport.canvas[1] - 1), y \in 0..(viewport.canvas[2] - 1) :
                viewport.frame >= 1 =>
                    Cardinality({ i \in 1..Len(viewport.shown) :
                                    viewport.shown[i] = <<x, y>> }) = 1)
    /\ [][viewport'.frame = viewport.frame + (IF Wrapped THEN 1 ELSE 0)]_vars

\* a canvas wider than high, in the second row of its second frame
C29_Witness ==
    /\ viewport.canvas = <<16, 9>> /\ viewport.frame = 1 /\ viewport.index = 17
    /\ viewport.fills[17] = <<0, 1>> /\ viewport.shown[144] = <<15, 8>>
    /\ viewport.seed # 0

\* C30: for every canvas of one pixel or more, calling update again and
\* again renders every pixel of the canvas and increments frame.
C30_UpdateRendersEveryPixel ==
    <>(/\ viewport.frame >= 1
       /\ viewport.shown = RowMajor(viewport, CanvasPixels(viewport)))

\* the canvas has fewer than PointsDivisor pixels
SmallCanvas == viewport.canvas \in { c \in Canvases : c[1] * c[2] < PointsDivisor }

\* the same for the canvases that have PointsDivisor pixels or more
C30_UpdateRendersLargeCanvas ==
    <>(SmallCanvas \/ (/\ viewport.frame >= 1
                       /\ viewport.shown = RowMajor(viewport, CanvasPixels(viewport))))

\* each update renders W*H / PointsDivisor pixels, one after the other
C30_UpdateRendersItsShare ==
    [][(viewport'.frame - viewport.frame) * CanvasPixels(viewport)
            + viewport'.index - viewport.index
       = CanvasPixels(viewport) \div PointsDivisor]_vars

====
